---------------------------- MODULE Spec2Model ----------------------------
(***************************************************************************)
(* A model of tinyavif: the OBU / AVIF framing, the sequence and frame     *)
(* header builders, the frame buffers and the tile encoder's syntax        *)
(* driver.  Bytes are naturals in 0..255 and byte strings are sequences.   *)
(* A usize that may exceed 31 bits (the argument of write_leb128) is kept  *)
(* as two 28-bit limbs <<hi, lo>>, value = hi * 2^28 + lo.                 *)
(***************************************************************************)
EXTENDS Integers, Sequences, FiniteSets, TLC

VARIABLES
  pc,                          \* position of the operation under way
  leb_value, leb_w,            \* write_leb128: its argument and its writer
  sequence_header, frame_header, tile_data,
  include_temporal_delimiter, av1_data,    \* pack_obus: arguments and result
  encoder,                     \* the AV1Encoder (NoEncoder before new,
                               \* Panicked after a failed assertion)
  add_trailing_one_bit,        \* generate_frame_header's argument
  avif_args,                   \* pack_avif: crop size and colour arguments
  avif,                        \* the ISOBMFFWriter's data
  boxes,                       \* the open ISOBMFFBox handles, innermost last
  closed_boxes,                \* the boxes dropped so far, with their extent
  content_pos_marker, content_pos,        \* pack_avif's locals
  ip,                          \* the statement of pack_avif to run next
  avif_out,                    \* pack_avif's result
  y4m,                         \* the Y4MReader: inner stream, position, size
  y4m_frame,                   \* the Frame read_frame builds and returns
  plane_idx,                   \* the plane read_frame reads next
  mode_info, frame, bitstream, \* the TileEncoder's fields
  calls,                       \* pending encode_partition calls, next first
  visited,                     \* blocks given to encode_block, in order
  tx_block,                    \* the transform block quantize works on
  q_steps,                     \* its <<dc_q, ac_q>>
  prob_cdf,                    \* the CDF handed to get_prob
  probs,                       \* what get_prob returned for symbols 0, 1, ...
  block_mi,                    \* encode_block's this_mi
  block_plane,                 \* the plane encode_block codes next
  pred_plane, pred_args,       \* dc_predict: the plane and <<y0, x0, h, w>>
  btf_args, btf_out,           \* half_btf: its arguments and its result
  lookups                      \* encode_coeffs: what it indexed and read

lebVars == <<leb_value, leb_w>>
obuVars == <<sequence_header, frame_header, tile_data,
             include_temporal_delimiter, av1_data>>
encVars == <<encoder, add_trailing_one_bit>>
avifVars == <<avif_args, avif, boxes, closed_boxes, content_pos_marker,
              content_pos, ip, avif_out>>
frameVars == <<y4m, y4m_frame, plane_idx>>
tileVars == <<mode_info, frame, bitstream, calls, visited, tx_block, q_steps,
              prob_cdf, probs, block_mi, block_plane, pred_plane,
              pred_args, btf_args, btf_out, lookups>>
blockVars == <<block_mi, block_plane, pred_plane, pred_args, btf_args,
               btf_out, lookups>>
vars == <<pc, lebVars, obuVars, encVars, avifVars, frameVars, tileVars>>

---------------------------------------------------------------------------
(* Integer helpers *)

RECURSIVE Pow2(_)
Pow2(n) == IF n = 0 THEN 1 ELSE 2 * Pow2(n - 1)

Min(a, b) == IF a < b THEN a ELSE b
Max(a, b) == IF a > b THEN a ELSE b

\* A sequence of n copies of b
Repeat(b, n) == [i \in 1..n |-> b]

---------------------------------------------------------------------------
(* usize as two 28-bit limbs *)

Limb == Pow2(28)

ToUsize(n) == <<0, n>>
UsizeIsZero(v) == v[1] = 0 /\ v[2] = 0
\* v >> 7
UsizeShr7(v) == <<v[1] \div 128, (v[1] % 128) * 2097152 + (v[2] \div 128)>>
\* v & 0x7F
UsizeLow7(v) == v[2] % 128

---------------------------------------------------------------------------
(* util.rs: write_leb128 *)

RECURSIVE write_leb128_loop(_, _)
write_leb128_loop(w, value) ==
  IF UsizeIsZero(value) THEN w
  ELSE LET more_flag == IF ~UsizeIsZero(UsizeShr7(value)) THEN 128 ELSE 0
       IN  write_leb128_loop(Append(w, more_flag + UsizeLow7(value)),
                             UsizeShr7(value))

\* A slip: the early return for zero is left out, so zero writes no byte
write_leb128_NoZeroCase(w, value) == write_leb128_loop(w, value)

write_leb128(w, value) ==
  IF UsizeIsZero(value) THEN Append(w, 0)
  ELSE write_leb128_loop(w, value)

---------------------------------------------------------------------------
(* hls.rs: pack_obus *)

\* A slip: the frame OBU's size counts the frame header only
pack_obus_SizeOfHeaderOnly(seq_hdr, frm_hdr, tile, delim) ==
  LET d0 == IF delim THEN <<18, 0>> ELSE <<>>
      d1 == write_leb128(Append(d0, 10), ToUsize(Len(seq_hdr))) \o seq_hdr
      d2 == write_leb128(Append(d1, 50), ToUsize(Len(frm_hdr)))
  IN  d2 \o frm_hdr \o tile

pack_obus(seq_hdr, frm_hdr, tile, delim) ==
  LET \* temporal delimiter OBU 0b0001_0010 with a zero-byte payload
      d0 == IF delim THEN <<18, 0>> ELSE <<>>
      \* sequence header OBU 0b0000_1010, payload size, payload
      d1 == write_leb128(Append(d0, 10), ToUsize(Len(seq_hdr))) \o seq_hdr
      \* frame OBU 0b0011_0010: frame header + tile data
      d2 == write_leb128(Append(d1, 50), ToUsize(Len(frm_hdr) + Len(tile)))
  IN  d2 \o frm_hdr \o tile

---------------------------------------------------------------------------
(* BitWriter: a byte buffer, an in-flight byte and the count of its used
   bits; bits are packed most significant first *)

BitWriter_new == [data |-> <<>>, cur |-> 0, nbits |-> 0]

\* the n low bits of value, most significant first (n <= 16 in this
\* encoder): the in-flight bits and the new ones are cut into whole bytes
BitWriter_write_bits(w, value, n) ==
  LET total == w.nbits + n
      acc   == w.cur * Pow2(n) + value
      full  == total \div 8
      rem   == total % 8
  IN  [ data  |-> w.data \o
                  [j \in 1..full |-> (acc \div Pow2(total - 8 * j)) % 256],
        cur   |-> acc % Pow2(rem),
        nbits |-> rem ]

BitWriter_write_bit(w, v) == BitWriter_write_bits(w, v, 1)

\* a list of <<value, n>> fields written in order
BitWriter_write_fields(w, fields) ==
  LET after[i \in 0..Len(fields)] ==
        IF i = 0 THEN w
        ELSE BitWriter_write_bits(after[i - 1], fields[i][1], fields[i][2])
  IN  after[Len(fields)]

BitWriter_finalize(w, add_trailing_one) ==
  LET w1 == IF add_trailing_one THEN BitWriter_write_bit(w, 1) ELSE w
  IN  IF w1.nbits = 0 THEN w1.data
      ELSE Append(w1.data, w1.cur * Pow2(8 - w1.nbits))

---------------------------------------------------------------------------
(* av1_encoder.rs: AV1Encoder *)

next_multiple_of(n, m) == ((n + m - 1) \div m) * m

\* util.rs round2 on an unsigned value
round2(value, n) == (value + (Pow2(n) \div 2)) \div Pow2(n)

\* No encoder yet, and the outcome of a failed assertion
NoEncoder == [none |-> TRUE]
Panicked  == [panic |-> TRUE]

\* A slip: the lossless quantizer index 0 is let through
AV1Encoder_new_LosslessAllowed(y_crop_width, y_crop_height, qindex) ==
  IF ~(0 < y_crop_width /\ y_crop_width <= 65536) THEN Panicked
  ELSE IF ~(0 < y_crop_height /\ y_crop_height <= 65536) THEN Panicked
  ELSE [ y_width        |-> next_multiple_of(y_crop_width, 8),
         y_height       |-> next_multiple_of(y_crop_height, 8),
         uv_width       |-> next_multiple_of(y_crop_width, 8) \div 2,
         uv_height      |-> next_multiple_of(y_crop_height, 8) \div 2,
         y_crop_width   |-> y_crop_width,
         y_crop_height  |-> y_crop_height,
         uv_crop_width  |-> round2(y_crop_width, 1),
         uv_crop_height |-> round2(y_crop_height, 1),
         qindex         |-> qindex ]

AV1Encoder_new(y_crop_width, y_crop_height, qindex) ==
  IF ~(0 < y_crop_width /\ y_crop_width <= 65536) THEN Panicked
  ELSE IF ~(0 < y_crop_height /\ y_crop_height <= 65536) THEN Panicked
  ELSE IF ~(qindex # 0) THEN Panicked
  ELSE LET y_width  == next_multiple_of(y_crop_width, 8)
           y_height == next_multiple_of(y_crop_height, 8)
       IN  [ y_width        |-> y_width,
             y_height       |-> y_height,
             uv_width       |-> y_width \div 2,
             uv_height      |-> y_height \div 2,
             y_crop_width   |-> y_crop_width,
             y_crop_height  |-> y_crop_height,
             uv_crop_width  |-> round2(y_crop_width, 1),
             uv_crop_height |-> round2(y_crop_height, 1),
             qindex         |-> qindex ]

\* The fields of the sequence header, in writing order
sequence_header_fields(width, height) ==
  << <<0, 3>>,   \* "Main" profile
     <<1, 1>>,   \* still picture
     <<1, 1>>,   \* with simplified headers
     <<31, 5>>,  \* level 31
     <<15, 4>>,  \* 16 bits for the width
     <<15, 4>>,  \* 16 bits for the height
     <<width - 1, 16>>,
     <<height - 1, 16>>,
     <<0, 6>>,   \* 64x64 superblocks, no filter-intra, intra-edge, superres,
                 \* CDEF, loop restoration
     <<0, 1>>,   \* 8 bits per pixel
     <<0, 1>>,   \* not monochrome
     <<0, 1>>,   \* no colour info
     <<0, 1>>,   \* "TV" colour range
     <<2, 2>>,   \* chroma sample position
     <<0, 1>>,   \* shared UV delta-q
     <<0, 1>> >> \* no film grain

\* A slip: the padded size is written in place of the crop size
generate_sequence_header_Padded(e) ==
  BitWriter_finalize(
    BitWriter_write_fields(BitWriter_new,
      sequence_header_fields(e.y_width, e.y_height)), TRUE)

generate_sequence_header(e) ==
  BitWriter_finalize(
    BitWriter_write_fields(BitWriter_new,
      sequence_header_fields(e.y_crop_width, e.y_crop_height)), TRUE)

\* The fields of the frame header, in writing order
frame_header_fields(tile_col_bit, tile_row_bit, qindex) ==
  << <<1, 1>>,   \* disable CDF updates
     <<0, 1>>,   \* no screen content tools
     <<0, 1>>,   \* render size = frame size
     <<1, 1>> >> \* uniform tile mode
  \o (IF tile_col_bit THEN << <<0, 1>> >> ELSE <<>>)   \* 1 tile column
  \o (IF tile_row_bit THEN << <<0, 1>> >> ELSE <<>>)   \* 1 tile row
  \o << <<qindex, 8>>,
        <<0, 3>>,   \* no frame-level delta-qs
        <<0, 1>>,   \* no quantizer matrices
        <<0, 1>>,   \* no segmentation
        <<0, 1>>,   \* no superblock-level delta-q
        <<0, 6>>,   \* deblocking strength 0
        <<0, 6>>,   \* deblocking strength 1
        <<0, 3>>,   \* sharpness
        <<0, 1>>,   \* no per-ref delta-lf
        <<0, 1>>,   \* largest TX size
        <<1, 1>> >> \* reduced TX type selection

\* A slip: the tile bits are written from 64 pixels on, not above 64
generate_frame_header_From64(e, trailing) ==
  BitWriter_finalize(
    BitWriter_write_fields(BitWriter_new,
      frame_header_fields(e.y_width >= 64, e.y_height >= 64, e.qindex)),
    trailing)

generate_frame_header(e, trailing) ==
  BitWriter_finalize(
    BitWriter_write_fields(BitWriter_new,
      frame_header_fields(e.y_width > 64, e.y_height > 64, e.qindex)),
    trailing)

---------------------------------------------------------------------------
(* main.rs: the header builders of the fixed 64x64 program *)

main_generate_sequence_header(width, height) ==
  IF ~(0 < width /\ width <= 65536) THEN "panic"
  ELSE IF ~(0 < height /\ height <= 65536) THEN "panic"
  ELSE BitWriter_finalize(
         BitWriter_write_fields(BitWriter_new,
           sequence_header_fields(width, height)), TRUE)

main_generate_frame_header(width, height, qindex, trailing) ==
  IF ~(0 < width /\ width <= 65536) THEN "panic"
  ELSE IF ~(0 < height /\ height <= 65536) THEN "panic"
  ELSE IF ~(qindex # 0) THEN "panic"
  ELSE BitWriter_finalize(
         BitWriter_write_fields(BitWriter_new,
           frame_header_fields(width > 64, height > 64, qindex)),
         trailing)

\* main(): width, height and qindex are fixed
main_width == 64
main_height == 64
main_qindex == 200

---------------------------------------------------------------------------
(* isobmff.rs: ISOBMFFWriter and ISOBMFFBox, on the writer's data.  File
   positions are counted from 0 as in the source; data[pos + 1] is the byte
   at position pos. *)

U8(v)  == <<v % 256>>
U16BE(v) == <<(v \div 256) % 256, v % 256>>
U32BE(v) == <<(v \div 16777216) % 256, (v \div 65536) % 256,
              (v \div 256) % 256, v % 256>>
U32LE(v) == <<v % 256, (v \div 256) % 256, (v \div 65536) % 256,
              (v \div 16777216) % 256>>

\* data with the four bytes at position pos replaced
PatchAt(data, pos, four) ==
  [i \in 1..Len(data) |->
     IF i > pos /\ i <= pos + 4 THEN four[i - pos] ELSE data[i]]

\* 4-byte size placeholder, then the 4-byte type
ISOBMFF_open_box(data, typ) == data \o <<0, 0, 0, 0>> \o typ

\* 4-byte size placeholder, 4-byte type, 1-byte version, 3-byte flags
ISOBMFF_open_box_with_version(data, typ, version, flags) ==
  data \o <<0, 0, 0, 0>> \o typ \o U32BE(version * 16777216 + flags)

ISOBMFF_get_file_pos(data) == Len(data)

ISOBMFFBox_write_u8(data, value)    == data \o U8(value)
ISOBMFFBox_write_u16(data, value)   == data \o U16BE(value)
ISOBMFFBox_write_u32(data, value)   == data \o U32BE(value)
ISOBMFFBox_write_bytes(data, value) == data \o value

\* mark_u32 returns the position of the four zero bytes it writes
ISOBMFFBox_mark_u32(data) ==
  [marker |-> Len(data), data |-> ISOBMFFBox_write_u32(data, 0)]

\* Drop: the size field takes the bytes from size_pos to the end
ISOBMFFBox_drop_PayloadOnly(data, size_pos) ==
  PatchAt(data, size_pos, U32BE(Len(data) - size_pos - 8))

ISOBMFFBox_drop(data, size_pos) ==
  PatchAt(data, size_pos, U32BE(Len(data) - size_pos))

\* A slip: the value is stored least significant byte first
ISOBMFFWriter_write_u32_at_marker_LittleEndian(data, pos, value) ==
  PatchAt(data, pos, U32LE(value))

ISOBMFFWriter_write_u32_at_marker(data, pos, value) ==
  PatchAt(data, pos, U32BE(value))

ISOBMFFWriter_finalize(data) == data

---------------------------------------------------------------------------
(* hls.rs: pack_avif, as the list of its statements.  A statement is
   <<method, box variable, arguments...>>. *)

pack_avif(av1, crop_width, crop_height, color_primaries, transfer_function, matrix_coefficients) ==
  LET content_size == Len(av1) IN
  << <<"open_box", "ftyp", <<102, 116, 121, 112>>>>,
     <<"write_bytes", "ftyp", <<97, 118, 105, 102>>>>,
     <<"write_u32", "ftyp", 0>>,
     <<"write_bytes", "ftyp", <<97, 118, 105, 102, 109, 105, 102, 49, 109, 105, 97, 102, 77, 65, 49, 66>>>>,
     <<"drop", "ftyp">>,
     <<"open_box_with_version", "meta", <<109, 101, 116, 97>>, 0, 0>>,
     <<"open_box_with_version", "hdlr", <<104, 100, 108, 114>>, 0, 0>>,
     <<"write_u32", "hdlr", 0>>,
     <<"write_bytes", "hdlr", <<112, 105, 99, 116>>>>,
     <<"write_u32", "hdlr", 0>>,
     <<"write_u32", "hdlr", 0>>,
     <<"write_u32", "hdlr", 0>>,
     <<"write_bytes", "hdlr", <<108, 105, 98, 97, 118, 105, 102, 0>>>>,
     <<"drop", "hdlr">>,
     <<"open_box_with_version", "pitm", <<112, 105, 116, 109>>, 0, 0>>,
     <<"write_u16", "pitm", 1>>,
     <<"drop", "pitm">>,
     <<"open_box_with_version", "iloc", <<105, 108, 111, 99>>, 0, 0>>,
     <<"write_u8", "iloc", 68>>,
     <<"write_u8", "iloc", 0>>,
     <<"write_u16", "iloc", 1>>,
     <<"write_u16", "iloc", 1>>,
     <<"write_u16", "iloc", 0>>,
     <<"write_u16", "iloc", 1>>,
     <<"mark_u32", "iloc">>,
     <<"write_u32", "iloc", content_size>>,
     <<"drop", "iloc">>,
     <<"open_box_with_version", "iinf", <<105, 105, 110, 102>>, 0, 0>>,
     <<"write_u16", "iinf", 1>>,
     <<"open_box_with_version", "infe", <<105, 110, 102, 101>>, 2, 0>>,
     <<"write_u16", "infe", 1>>,
     <<"write_u16", "infe", 0>>,
     <<"write_bytes", "infe", <<97, 118, 48, 49>>>>,
     <<"write_bytes", "infe", <<67, 111, 108, 111, 114, 0>>>>,
     <<"drop", "infe">>,
     <<"drop", "iinf">>,
     <<"open_box", "iprp", <<105, 112, 114, 112>>>>,
     <<"open_box", "ipco", <<105, 112, 99, 111>>>>,
     <<"open_box_with_version", "ispe", <<105, 115, 112, 101>>, 0, 0>>,
     <<"write_u32", "ispe", crop_width>>,
     <<"write_u32", "ispe", crop_height>>,
     <<"drop", "ispe">>,
     <<"open_box_with_version", "pixi", <<112, 105, 120, 105>>, 0, 0>>,
     <<"write_u8", "pixi", 3>>,
     <<"write_u8", "pixi", 8>>,
     <<"write_u8", "pixi", 8>>,
     <<"write_u8", "pixi", 8>>,
     <<"drop", "pixi">>,
     <<"open_box", "av1C", <<97, 118, 49, 67>>>>,
     <<"write_u8", "av1C", 129>>,
     <<"write_u8", "av1C", 31>>,
     <<"write_u8", "av1C", 14>>,
     <<"write_u8", "av1C", 16>>,
     <<"drop", "av1C">>,
     <<"open_box", "colr", <<99, 111, 108, 114>>>>,
     <<"write_bytes", "colr", <<110, 99, 108, 120>>>>,
     <<"write_u16", "colr", color_primaries>>,
     <<"write_u16", "colr", transfer_function>>,
     <<"write_u16", "colr", matrix_coefficients>>,
     <<"write_u8", "colr", 0>>,
     <<"drop", "colr">>,
     <<"drop", "ipco">>,
     <<"open_box_with_version", "ipma", <<105, 112, 109, 97>>, 0, 0>>,
     <<"write_u32", "ipma", 1>>,
     <<"write_u16", "ipma", 1>>,
     <<"write_u8", "ipma", 4>>,
     <<"write_u8", "ipma", 1>>,
     <<"write_u8", "ipma", 2>>,
     <<"write_u8", "ipma", 131>>,
     <<"write_u8", "ipma", 4>>,
     <<"drop", "ipma">>,
     <<"drop", "iprp">>,
     <<"drop", "meta">>,
     <<"open_box", "mdat", <<109, 100, 97, 116>>>>,
     <<"get_file_pos", "mdat">>,
     <<"write_bytes", "mdat", av1>>,
     <<"drop", "mdat">>,
     <<"write_u32_at_marker", "avif">>,
     <<"finalize", "avif">> >>

---------------------------------------------------------------------------
(* array2d.rs, frame.rs: Array2D, Plane and Frame.  An Array2D is its rows,
   cols and data; rows and columns are counted from 0 as in the source, and
   data[row + 1][col + 1] is the element at [row][col]. *)

\* body with its parameter standing for the value of v
Bind(v, body(_)) == CHOOSE r \in {body(x) : x \in {v}} : TRUE

Array2D_zeroed_of(rows, cols, zero) ==
  [rows |-> rows, cols |-> cols,
   data |-> [r \in 1..rows |-> [c \in 1..cols |-> zero]]]

Array2D_zeroed(rows, cols) == Array2D_zeroed_of(rows, cols, 0)

Plane_width(plane)  == plane.pixels.cols
Plane_height(plane) == plane.pixels.rows

\* fill_padding panics on an index outside the buffer or on 0 - 1
Plane_fill_padding_panics(plane) ==
  \/ /\ Plane_height(plane) > 0
     /\ \/ plane.crop_width = 0
        \/ plane.crop_width - 1 >= Plane_width(plane)
  \/ /\ plane.crop_height < Plane_height(plane)
     /\ Plane_width(plane) > 0
     /\ plane.crop_height = 0

\* A slip: the second loop stops at the crop width, so the corner keeps
\* what the first loop put there
Plane_fill_padding_NoCorner(plane) ==
  LET crop_width  == plane.crop_width
      crop_height == plane.crop_height
      width  == Plane_width(plane)
      height == Plane_height(plane)
      px == plane.pixels.data
      right == [r \in 1..height |-> [c \in 1..width |->
                 IF c > crop_width THEN px[r][crop_width] ELSE px[r][c]]]
      down == [r \in 1..height |-> [c \in 1..width |->
                 IF r > crop_height /\ c <= crop_width
                   THEN right[crop_height][c] ELSE right[r][c]]]
  IN [plane EXCEPT !.pixels.data = down]

Plane_fill_padding(plane) ==
  LET crop_width  == plane.crop_width
      crop_height == plane.crop_height
      width  == Plane_width(plane)
      height == Plane_height(plane)
      px == plane.pixels.data
      \* first loop: every row takes its pixel at column crop_width - 1
      right == [r \in 1..height |-> [c \in 1..width |->
                 IF c > crop_width THEN px[r][crop_width] ELSE px[r][c]]]
      \* second loop: rows from crop_height on copy row crop_height - 1
      down == [r \in 1..height |-> [c \in 1..width |->
                 IF r > crop_height THEN right[crop_height][c]
                                    ELSE right[r][c]]]
  IN [plane EXCEPT !.pixels.data = down]

\* read_from at position pos of the stream inner: the rows of the crop
\* region, then fill_padding.  pixels[row] panics for a row outside the
\* buffer, the slice 0 .. crop_width for a crop wider than the buffer, and
\* read_exact fails when the stream ends.
Plane_read_from(plane, inner, pos) ==
  LET crop_width  == plane.crop_width
      crop_height == plane.crop_height
      first_panic_row ==
        IF crop_width > Plane_width(plane) THEN 0 ELSE Plane_height(plane)
      ok_rows == Min(crop_height, first_panic_row)
      avail == IF crop_width = 0 THEN crop_height
               ELSE (Len(inner) - pos) \div crop_width
      px == plane.pixels.data
      read == [r \in 1..Plane_height(plane) |->
                [c \in 1..Plane_width(plane) |->
                  IF r <= crop_height /\ c <= crop_width
                    THEN inner[pos + (r - 1) * crop_width + c]
                    ELSE px[r][c]]]
      filled == [plane EXCEPT !.pixels.data = read]
  IN IF avail < ok_rows THEN [status |-> "err"]
     ELSE IF ok_rows < crop_height THEN [status |-> "panic"]
     ELSE IF Plane_fill_padding_panics(filled) THEN [status |-> "panic"]
     ELSE [status |-> "ok", plane |-> Plane_fill_padding(filled),
           pos |-> pos + crop_height * crop_width]

Frame_new(y_crop_height, y_crop_width) ==
  LET y_width  == next_multiple_of(y_crop_width, 8)
      y_height == next_multiple_of(y_crop_height, 8)
      uv_crop_width  == round2(y_crop_width, 1)
      uv_crop_height == round2(y_crop_height, 1)
      uv_width  == y_crop_width \div 2
      uv_height == y_crop_height \div 2
  IN << [pixels |-> Array2D_zeroed(y_height, y_width),
         crop_width |-> y_crop_width, crop_height |-> y_crop_height],
        [pixels |-> Array2D_zeroed(uv_height, uv_width),
         crop_width |-> uv_crop_width, crop_height |-> uv_crop_height],
        [pixels |-> Array2D_zeroed(uv_height, uv_width),
         crop_width |-> uv_crop_width, crop_height |-> uv_crop_height] >>

---------------------------------------------------------------------------
(* util.rs helpers on signed values; txfm.rs and recon.rs.  A 1-D array is a
   tuple, arr[k + 1] being the source's arr[k]; a transform block is an
   Array2D.  The cosine, shift and range tables are not in the sources at
   hand and follow the AV1 specification. *)

abs(value) == IF value < 0 THEN -value ELSE value
signum(value) == IF value < 0 THEN -1 ELSE IF value > 0 THEN 1 ELSE 0
clamp(value, lo, hi) == IF value < lo THEN lo ELSE IF value > hi THEN hi ELSE value
\* round2 on an i32: the shift is arithmetic
round2_i32(value, n) == (value + (Pow2(n) \div 2)) \div Pow2(n)

\* av1_cospi_arr_data[cos_bit - 10][i] = round(cos(i * pi / 128) * 2^cos_bit),
\* for the entries the 8-point transforms use
cospi(cos_bit, i) ==
  LET at12 == [k \in {8, 16, 24, 32, 40, 48, 56} |->
                 CASE k = 8 -> 4017 [] k = 16 -> 3784 [] k = 24 -> 3406
                   [] k = 32 -> 2896 [] k = 40 -> 2276 [] k = 48 -> 1567
                   [] k = 56 -> 799]
      at13 == [k \in {8, 16, 24, 32, 40, 48, 56} |->
                 CASE k = 8 -> 8035 [] k = 16 -> 7568 [] k = 24 -> 6811
                   [] k = 32 -> 5793 [] k = 40 -> 4551 [] k = 48 -> 3135
                   [] k = 56 -> 1598]
  IN IF cos_bit = 12 THEN at12[i] ELSE at13[i]

\* av1_txfm_fwd_shift[1], av1_txfm_inv_shift[1], av1_txfm_inv_start_range[1]
av1_txfm_fwd_shift_8x8 == <<2, -1, 0>>
av1_txfm_inv_shift_8x8 == <<-1, -4>>
av1_txfm_inv_start_range_8x8 == 6

I32_MAX == (Pow2(30) - 1) + Pow2(30)
I32_MIN == (-Pow2(30)) - Pow2(30)

clamp_value(value, range_bits) ==
  clamp(value, -Pow2(range_bits - 1), Pow2(range_bits - 1) - 1)

clamp_array(arr, bits) == [k \in 1..Len(arr) |-> clamp_value(arr[k], bits)]

round_shift_array(arr, bits) ==
  IF bits = 0 THEN arr
  ELSE IF bits < 0
    THEN [k \in 1..Len(arr) |->
            clamp(arr[k] * Pow2(-bits), I32_MIN, I32_MAX)]
    ELSE [k \in 1..Len(arr) |-> round2_i32(arr[k], bits)]

\* i32 `*`: TRUE when the exact product of two i32 values is not an i32.
\* The test divides instead of multiplying, so that no intermediate leaves
\* the 32-bit range itself
mul_overflows(a, b) ==
  IF a = 0 \/ b = 0 \/ a = 1 \/ b = 1 THEN FALSE
  ELSE IF a = I32_MIN \/ b = I32_MIN THEN TRUE
  ELSE IF a = -1 \/ b = -1 THEN FALSE
  ELSE IF (a < 0) = (b < 0)
    THEN abs(a) > I32_MAX \div abs(b)
    ELSE abs(a) > (I32_MAX \div abs(b))
                    + (IF I32_MAX % abs(b) = abs(b) - 1 THEN 1 ELSE 0)

\* the four bytes of an i32 in two's complement, least significant first
i32_bytes(a) ==
  <<a % 256, (a \div 256) % 256, (a \div 65536) % 256,
    (a \div Pow2(24)) % 256>>

\* the i32 with the given four bytes
i32_from_bytes(r) ==
  (IF r[4] >= 128 THEN r[4] - 256 ELSE r[4]) * Pow2(24)
    + r[3] * 65536 + r[2] * 256 + r[1]

\* i32 `*` without overflow checks: the low 32 bits of the product, by
\* long multiplication on bytes
i32_mul_wrapped(a, b) ==
  IF ~mul_overflows(a, b) THEN a * b
  ELSE LET x == i32_bytes(a)
           y == i32_bytes(b)
           c1 == x[1] * y[1]
           c2 == x[1] * y[2] + x[2] * y[1] + (c1 \div 256)
           c3 == x[1] * y[3] + x[2] * y[2] + x[3] * y[1] + (c2 \div 256)
           c4 == x[1] * y[4] + x[2] * y[3] + x[3] * y[2] + x[4] * y[1]
                   + (c3 \div 256)
       IN i32_from_bytes(<<c1 % 256, c2 % 256, c3 % 256, c4 % 256>>)

\* i32::wrapping_add: the sum reduced modulo 2^32 into the i32 range
wrapping_add(a, b) ==
  IF a > 0 /\ b > I32_MAX - a THEN (a + I32_MIN) + (b + I32_MIN)
  ELSE IF a < 0 /\ b < I32_MIN - a THEN (a - I32_MIN) + (b - I32_MIN)
  ELSE a + b

\* half_btf multiplies with `*`: a build with overflow checks panics when
\* either product leaves the i32 range
half_btf_panics(w0, in0, w1, in1) ==
  mul_overflows(w0, in0) \/ mul_overflows(w1, in1)

\* The value half_btf returns when it returns: with overflow checks off
\* `*` wraps, and where no product overflows both builds compute this.
\* >> on an i32 is the arithmetic shift, the floor of the division
half_btf(w0, in0, w1, in1, cos_bit) ==
  LET tmp == wrapping_add(i32_mul_wrapped(w0, in0), i32_mul_wrapped(w1, in1))
      offset == Pow2(cos_bit - 1)
  IN wrapping_add(tmp, offset) \div Pow2(cos_bit)

fwd_dct8(arr, cos_bit) ==
  LET c(i) == cospi(cos_bit, i)
      h(w0, in0, w1, in1) == half_btf(w0, in0, w1, in1, cos_bit)
      stage1 == << arr[1] + arr[8], arr[2] + arr[7], arr[3] + arr[6],
                   arr[4] + arr[5], -arr[5] + arr[4], -arr[6] + arr[3],
                   -arr[7] + arr[2], -arr[8] + arr[1] >>
      stage2 == << stage1[1] + stage1[4], stage1[2] + stage1[3],
                   -stage1[3] + stage1[2], -stage1[4] + stage1[1],
                   stage1[5],
                   h(-c(32), stage1[6], c(32), stage1[7]),
                   h(c(32), stage1[7], c(32), stage1[6]),
                   stage1[8] >>
      stage3 == << h(c(32), stage2[1], c(32), stage2[2]),
                   h(-c(32), stage2[2], c(32), stage2[1]),
                   h(c(48), stage2[3], c(16), stage2[4]),
                   h(c(48), stage2[4], -c(16), stage2[3]),
                   stage2[5] + stage2[6], -stage2[6] + stage2[5],
                   -stage2[7] + stage2[8], stage2[8] + stage2[7] >>
      stage4 == << stage3[1], stage3[2], stage3[3], stage3[4],
                   h(c(56), stage3[5], c(8), stage3[8]),
                   h(c(24), stage3[6], c(40), stage3[7]),
                   h(c(24), stage3[7], -c(40), stage3[6]),
                   h(c(56), stage3[8], -c(8), stage3[5]) >>
  IN << stage4[1], stage4[5], stage4[3], stage4[7],
        stage4[2], stage4[6], stage4[4], stage4[8] >>

inv_dct8(arr, cos_bit, stage_range) ==
  LET c(i) == cospi(cos_bit, i)
      h(w0, in0, w1, in1) == half_btf(w0, in0, w1, in1, cos_bit)
      cl(v, stage) == clamp_value(v, stage_range[stage + 1])
      stage1 == << arr[1], arr[5], arr[3], arr[7],
                   arr[2], arr[6], arr[4], arr[8] >>
      stage2 == << stage1[1], stage1[2], stage1[3], stage1[4],
                   h(c(56), stage1[5], -c(8), stage1[8]),
                   h(c(24), stage1[6], -c(40), stage1[7]),
                   h(c(40), stage1[6], c(24), stage1[7]),
                   h(c(8), stage1[5], c(56), stage1[8]) >>
      stage3 == << h(c(32), stage2[1], c(32), stage2[2]),
                   h(c(32), stage2[1], -c(32), stage2[2]),
                   h(c(48), stage2[3], -c(16), stage2[4]),
                   h(c(16), stage2[3], c(48), stage2[4]),
                   cl(stage2[5] + stage2[6], 3), cl(stage2[5] - stage2[6], 3),
                   cl(-stage2[7] + stage2[8], 3), cl(stage2[7] + stage2[8], 3) >>
      stage4 == << cl(stage3[1] + stage3[4], 4), cl(stage3[2] + stage3[3], 4),
                   cl(stage3[2] - stage3[3], 4), cl(stage3[1] - stage3[4], 4),
                   stage3[5],
                   h(-c(32), stage3[6], c(32), stage3[7]),
                   h(c(32), stage3[6], c(32), stage3[7]),
                   stage3[8] >>
  IN << cl(stage4[1] + stage4[8], 5), cl(stage4[2] + stage4[7], 5),
        cl(stage4[3] + stage4[6], 5), cl(stage4[4] + stage4[5], 5),
        cl(stage4[4] - stage4[5], 5), cl(stage4[3] - stage4[6], 5),
        cl(stage4[2] - stage4[7], 5), cl(stage4[1] - stage4[8], 5) >>

Array2D_transpose(a) ==
  [rows |-> a.cols, cols |-> a.rows,
   data |-> [i \in 1..a.cols |-> [j \in 1..a.rows |-> a.data[j][i]]]]

\* the 8x8 case; every other size is todo!() in the source
fwd_txfm2d(residual) ==
  LET shift == av1_txfm_fwd_shift_8x8
      cos_bit_col == 13
      cos_bit_row == 13
      transposed == Array2D_transpose(residual)
      cols == [j \in 1..8 |->
                round_shift_array(
                  fwd_dct8(round_shift_array(transposed.data[j], -shift[1]),
                           cos_bit_col),
                  -shift[2])]
      back == Array2D_transpose([transposed EXCEPT !.data = cols])
      rows == [i \in 1..8 |->
                round_shift_array(fwd_dct8(back.data[i], cos_bit_row),
                                  -shift[3])]
  IN [back EXCEPT !.data = rows]

inv_txfm2d(residual) ==
  LET shift == av1_txfm_inv_shift_8x8
      cos_bit_col == 12
      cos_bit_row == 12
      bd == 8
      stages == 6
      stage_range_row ==
        [i \in 1..stages |-> av1_txfm_inv_start_range_8x8 + bd + 1]
      stage_range_col ==
        [i \in 1..stages |-> av1_txfm_inv_start_range_8x8 + shift[1] + bd + 1]
      rows == [i \in 1..8 |->
                round_shift_array(
                  inv_dct8(clamp_array(residual.data[i], bd + 8), cos_bit_col,
                           stage_range_col),
                  -shift[1])]
      transposed == Array2D_transpose([residual EXCEPT !.data = rows])
      cols == [j \in 1..8 |->
                round_shift_array(
                  inv_dct8(clamp_array(transposed.data[j], Max(bd + 6, 16)),
                           cos_bit_row, stage_range_row),
                  -shift[2])]
  IN Array2D_transpose([transposed EXCEPT !.data = cols])

dc_predict_Truncating(pixels, y0, x0, h, w) ==
  LET haveLeft == x0 > 0
      haveAbove == y0 > 0
      above[j \in 0..w] ==
        IF j = 0 THEN 0 ELSE above[j - 1] + pixels.data[y0][x0 + j]
      left[i \in 0..h] ==
        IF i = 0 THEN 0 ELSE left[i - 1] + pixels.data[y0 + i][x0]
      sum == (IF haveAbove THEN above[w] ELSE 0)
               + (IF haveLeft THEN left[h] ELSE 0)
      avg == IF haveAbove /\ haveLeft THEN sum \div (w + h)
             ELSE IF haveAbove THEN sum \div w
             ELSE IF haveLeft THEN sum \div h
             ELSE 128
  IN clamp(avg, 0, 255)

\* recon.rs: the value dc_predict fills the block with
dc_predict(pixels, y0, x0, h, w) ==
  LET haveLeft == x0 > 0
      haveAbove == y0 > 0
      above[j \in 0..w] ==
        IF j = 0 THEN 0 ELSE above[j - 1] + pixels.data[y0][x0 + j]
      left[i \in 0..h] ==
        IF i = 0 THEN 0 ELSE left[i - 1] + pixels.data[y0 + i][x0]
      sum == (IF haveAbove THEN above[w] ELSE 0)
               + (IF haveLeft THEN left[h] ELSE 0)
      avg == IF haveAbove /\ haveLeft THEN (sum + (w + h) \div 2) \div (w + h)
             ELSE IF haveAbove THEN (sum + w \div 2) \div w
             ELSE IF haveLeft THEN (sum + h \div 2) \div h
             ELSE 128
  IN clamp(avg, 0, 255)

\* pred is the predicted value of every pixel of the block
compute_residual(source, pred, y0, x0, h, w) ==
  fwd_txfm2d([rows |-> h, cols |-> w,
              data |-> [i \in 1..h |-> [j \in 1..w |->
                          source.data[y0 + i][x0 + j] - pred]]])

\* quantize with a bias of q/2: exact halves round away from zero
quantize_HalfAway(residual, dc_q, ac_q) ==
  [residual EXCEPT !.data =
     [i \in 1..residual.rows |-> [j \in 1..residual.cols |->
        LET q == IF i = 1 /\ j = 1 THEN dc_q ELSE ac_q
            coeff == residual.data[i][j]
        IN signum(coeff) * ((abs(coeff) + q \div 2) \div q)]]]

quantize(residual, dc_q, ac_q) ==
  [residual EXCEPT !.data =
     [i \in 1..residual.rows |-> [j \in 1..residual.cols |->
        LET q == IF i = 1 /\ j = 1 THEN dc_q ELSE ac_q
            coeff == residual.data[i][j]
        IN signum(coeff) * ((abs(coeff) + (q - 1) \div 2) \div q)]]]

dequantize(residual, dc_q, ac_q) ==
  [residual EXCEPT !.data =
     [i \in 1..residual.rows |-> [j \in 1..residual.cols |->
        LET q == IF i = 1 /\ j = 1 THEN dc_q ELSE ac_q
        IN residual.data[i][j] * q]]]

\* the block of reconstructed pixels apply_residual leaves where every
\* pixel held pred
apply_residual(pred, residual, h, w) ==
  LET inv == inv_txfm2d(residual)
  IN [i \in 1..h |-> [j \in 1..w |-> clamp(pred + inv.data[i][j], 0, 255)]]

---------------------------------------------------------------------------
(* consts.rs: scan orders and context offsets, as <<row, col>> pairs *)

default_scan_4x4 ==
  <<
     <<0, 0>>, <<1, 0>>, <<0, 1>>, <<0, 2>>, <<1, 1>>, <<2, 0>>, <<3, 0>>,
     <<2, 1>>, <<1, 2>>, <<0, 3>>, <<1, 3>>, <<2, 2>>, <<3, 1>>, <<3, 2>>,
     <<2, 3>>, <<3, 3>> >>

default_scan_8x8 ==
  <<
     <<0, 0>>, <<1, 0>>, <<0, 1>>, <<0, 2>>, <<1, 1>>, <<2, 0>>, <<3, 0>>,
     <<2, 1>>, <<1, 2>>, <<0, 3>>, <<0, 4>>, <<1, 3>>, <<2, 2>>, <<3, 1>>,
     <<4, 0>>, <<5, 0>>, <<4, 1>>, <<3, 2>>, <<2, 3>>, <<1, 4>>, <<0, 5>>,
     <<0, 6>>, <<1, 5>>, <<2, 4>>, <<3, 3>>, <<4, 2>>, <<5, 1>>, <<6, 0>>,
     <<7, 0>>, <<6, 1>>, <<5, 2>>, <<4, 3>>, <<3, 4>>, <<2, 5>>, <<1, 6>>,
     <<0, 7>>, <<1, 7>>, <<2, 6>>, <<3, 5>>, <<4, 4>>, <<5, 3>>, <<6, 2>>,
     <<7, 1>>, <<7, 2>>, <<6, 3>>, <<5, 4>>, <<4, 5>>, <<3, 6>>, <<2, 7>>,
     <<3, 7>>, <<4, 6>>, <<5, 5>>, <<6, 4>>, <<7, 3>>, <<7, 4>>, <<6, 5>>,
     <<5, 6>>, <<4, 7>>, <<5, 7>>, <<6, 6>>, <<7, 5>>, <<7, 6>>, <<6, 7>>,
     <<7, 7>> >>

Sig_Ref_Diff_Offset ==
  << <<0, 1>>, <<1, 0>>, <<1, 1>>, <<0, 2>>, <<2, 0>> >>

Mag_Ref_Offset == << <<0, 1>>, <<1, 0>>, <<1, 1>> >>

Coeff_Base_Ctx_Offset_8x8 ==
  << <<0, 1, 6, 6, 21>>,
     <<1, 6, 6, 21, 21>>,
     <<6, 6, 21, 21, 21>>,
     <<6, 21, 21, 21, 21>>,
     <<21, 21, 21, 21, 21>> >>

(* av1_encoder.rs: the CDFs of encode_partition and encode_coeffs *)

all_cdfs ==
  << << <<15597, 20929, 24571, 26706, 27664, 28821, 29601, 30571, 31902>>,
        <<7925, 11043, 16785, 22470, 23971, 25043, 26651, 28701, 29834>>,
        <<5414, 13269, 15111, 20488, 22360, 24500, 25537, 26336, 32117>>,
        <<2662, 6362, 8614, 20860, 23053, 24778, 26436, 27829, 31171>> >>,
     << <<18462, 20920, 23124, 27647, 28227, 29049, 29519, 30178, 31544>>,
        <<7689, 9060, 12056, 24992, 25660, 26182, 26951, 28041, 29052>>,
        <<6015, 9009, 10062, 24544, 25409, 26545, 27071, 27526, 32047>>,
        <<1394, 2208, 2796, 28614, 29061, 29466, 29840, 30185, 31899>> >>,
     << <<20137, 21547, 23078, 29566, 29837, 30261, 30524, 30892, 31724>>,
        <<6732, 7490, 9497, 27944, 28250, 28515, 28969, 29630, 30104>>,
        <<5945, 7663, 8348, 28683, 29117, 29749, 30064, 30298, 32238>>,
        <<870, 1212, 1487, 31198, 31394, 31574, 31743, 31881, 32332>> >> >>

coeff_base_eob_cdf ==
  << <<21457, 31043>>, <<31951, 32483>>, <<32153, 32562>>, <<31473, 32215>> >>

coeff_base_cdf ==
  <<
     <<7754, 16948, 22142>>, <<25670, 32330, 32691>>,
     <<15663, 29225, 31994>>, <<9878, 23288, 29158>>, <<6419, 17088, 24336>>,
     <<3859, 11003, 17039>>, <<27562, 32595, 32725>>,
     <<17575, 30588, 32399>>, <<10819, 24838, 30309>>,
     <<7124, 18686, 25916>>, <<4479, 12688, 19340>>, <<28385, 32476, 32673>>,
     <<15306, 29005, 31938>>, <<8937, 21615, 28322>>, <<5982, 15603, 22786>>,
     <<3620, 10267, 16136>>, <<27280, 32464, 32667>>,
     <<15607, 29160, 32004>>, <<9091, 22135, 28740>>, <<6232, 16632, 24020>>,
     <<4047, 11377, 17672>>, <<29220, 32630, 32718>>,
     <<19650, 31220, 32462>>, <<13050, 26312, 30827>>,
     <<9228, 20870, 27468>>, <<6146, 15149, 21971>>, <<30169, 32481, 32623>>,
     <<17212, 29311, 31554>>, <<9911, 21311, 26882>>, <<4487, 13314, 20372>>,
     <<2570, 7772, 12889>>, <<30924, 32613, 32708>>, <<19490, 30206, 32107>>,
     <<11232, 23998, 29276>>, <<6769, 17955, 25035>>, <<4398, 12623, 19214>>,
     <<30609, 32627, 32722>>, <<19370, 30582, 32287>>,
     <<10457, 23619, 29409>>, <<6443, 17637, 24834>>, <<4645, 13236, 20106>>,
     <<8192, 16384, 24576>> >>

coeff_br_cdf ==
  <<
     <<18274, 24813, 27890>>, <<15537, 23149, 27003>>,
     <<9449, 16740, 21827>>, <<6700, 12498, 17261>>, <<4988, 9866, 14198>>,
     <<4236, 8147, 11902>>, <<2867, 5860, 8654>>, <<17124, 23171, 26101>>,
     <<20396, 27477, 30148>>, <<16573, 24629, 28492>>,
     <<12749, 20846, 25674>>, <<10233, 17878, 22818>>,
     <<8525, 15332, 20363>>, <<6283, 11632, 16255>>, <<20466, 26511, 29286>>,
     <<23059, 29174, 31191>>, <<19481, 27263, 30241>>,
     <<15458, 23631, 28137>>, <<12416, 20608, 25693>>,
     <<10261, 18011, 23261>>, <<8016, 14655, 19666>> >>

(* The EntropyWriter is not among the sources at hand; the bitstream is kept
   as the list of the calls made on it, each with its arguments. *)
EntropyWriter_new == <<>>
write_symbol(symbol, cdf) == <<"symbol", symbol, cdf>>
write_bool(value, p)      == <<"bool", value, p>>
write_bit(bit, p)         == <<"bit", bit, p>>
write_literal(value, n)   == <<"literal", value, n>>
write_golomb(value)       == <<"golomb", value>>

\* enums.rs
Partition ==
  [NONE |-> 0, HORZ |-> 1, VERT |-> 2, SPLIT |-> 3, HORZ_A |-> 4, HORZ_B |-> 5,
   VERT_A |-> 6, VERT_B |-> 7, HORZ_4 |-> 8, VERT_4 |-> 9]

\* util.rs; cdf[symbol + 1] is the source's cdf[symbol]
get_prob_Terminal32767(symbol, cdf) ==
  IF symbol = 0 THEN cdf[1]
  ELSE IF symbol = Len(cdf) THEN 32767 - cdf[symbol]
  ELSE cdf[symbol + 1] - cdf[symbol]

get_prob(symbol, cdf) ==
  IF symbol = 0 THEN cdf[1]
  ELSE IF symbol = Len(cdf) THEN 32768 - cdf[symbol]
  ELSE cdf[symbol + 1] - cdf[symbol]

\* get_prob indexes past the end of the slice: cdf[0] of an empty slice,
\* or cdf[symbol] for a symbol above cdf.len()
get_prob_panics(symbol, cdf) ==
  \/ symbol = 0 /\ Len(cdf) = 0
  \/ symbol > Len(cdf)

ilog2(n) == CHOOSE k \in 0..29 : Pow2(k) <= n /\ n < Pow2(k + 1)
\* util.rs, for a value that is not 0
ceil_log2(n) == IF n = 1 THEN 0 ELSE ilog2(n - 1) + 1

SetMax(S) == CHOOSE m \in S : \A x \in S : x <= m
\* the concatenation of parts[1], ..., parts[n]
Concat(parts, n) ==
  LET acc[i \in 0..n] == IF i = 0 THEN <<>> ELSE acc[i - 1] \o parts[i]
  IN acc[n]

ModeInfo_zeroed == [level_ctx |-> <<0, 0, 0>>, dc_sign |-> <<0, 0, 0>>]

\* dc_sign_ctx: the MI cells whose dc_sign it reads for the block at
\* (mi_row, mi_col), as 0-based <<row, column>>
dc_sign_ctx_cells(grid, mi_row, mi_col, bsize) ==
  {<<mi_row - 1, above_col>> :
     above_col \in IF mi_row > 0
                     THEN mi_col..(Min(mi_col + bsize \div 4, grid.cols) - 1)
                     ELSE {}}
    \cup
  {<<left_row, mi_col - 1>> :
     left_row \in IF mi_col > 0
                    THEN mi_row..(Min(mi_row + bsize \div 4, grid.rows) - 1)
                    ELSE {}}

\* grid is the TileEncoder's mode_info
dc_sign_ctx(grid, plane, mi_row, mi_col, bsize) ==
  LET mi_rows == grid.rows
      mi_cols == grid.cols
      above_end == Min(mi_col + bsize \div 4, mi_cols)
      left_end == Min(mi_row + bsize \div 4, mi_rows)
      above[k \in mi_col..above_end] ==
        IF k = mi_col THEN 0
        ELSE above[k - 1] + grid.data[mi_row][k].dc_sign[plane + 1]
      left[k \in mi_row..left_end] ==
        IF k = mi_row THEN 0
        ELSE left[k - 1] + grid.data[k][mi_col].dc_sign[plane + 1]
      net_neighbour_sign ==
        (IF mi_row > 0 THEN above[above_end] ELSE 0)
          + (IF mi_col > 0 THEN left[left_end] ELSE 0)
  IN IF net_neighbour_sign = 0 THEN 0
     ELSE IF net_neighbour_sign < 0 THEN 1
     ELSE 2

encode_coeffs_eob_symbols_LowInclusive(eob) ==
  LET eob_class == ceil_log2(eob)
      eob_class_low == Pow2(eob_class - 1)
      eob_shift == eob_class - 2
      extra_bit == ((eob - eob_class_low) \div Pow2(eob_shift)) % 2
      remainder == eob - eob_class_low - extra_bit * Pow2(eob_shift)
      first_extra_bit_cdf ==
        << <<20238>>, <<21057>>, <<19159>>, <<22337>>, <<20159>> >>
  IN << write_symbol(eob_class,
                     <<6307, 7541, 12060, 16358, 22553, 27865>>) >>
       \o (IF eob_class > 1
             THEN << write_symbol(extra_bit,
                                  first_extra_bit_cdf[eob_class - 1]),
                     write_literal(remainder, eob_class - 2) >>
             ELSE <<>>)

\* encode_coeffs: the EOB class and its extra bits, for eob > 0
encode_coeffs_eob_symbols(eob) ==
  LET eob_class == ceil_log2(eob)
      eob_class_low == Pow2(eob_class - 1) + 1
      eob_shift == eob_class - 2
      extra_bit == ((eob - eob_class_low) \div Pow2(eob_shift)) % 2
      remainder == eob - eob_class_low - extra_bit * Pow2(eob_shift)
      first_extra_bit_cdf ==
        << <<20238>>, <<21057>>, <<19159>>, <<22337>>, <<20159>> >>
  IN << write_symbol(eob_class,
                     <<6307, 7541, 12060, 16358, 22553, 27865>>) >>
       \o (IF eob_class > 1
             THEN << write_symbol(extra_bit,
                                  first_extra_bit_cdf[eob_class - 1]),
                     write_literal(remainder, eob_class - 2) >>
             ELSE <<>>)

\* the assertion eob_class_low <= eob && eob <= eob_class_hi fails
encode_coeffs_eob_panics(eob) ==
  LET eob_class == ceil_log2(eob)
  IN /\ eob_class > 1
     /\ ~(Pow2(eob_class - 1) + 1 <= eob /\ eob <= Pow2(eob_class))

RECURSIVE encode_coeffs_br_NoBreak(_, _, _, _)
encode_coeffs_br_NoBreak(abs_value, level, rounds, cdf) ==
  IF rounds = 0 THEN <<>>
  ELSE LET coeff_br == Min(abs_value - level, 3)
       IN << write_symbol(coeff_br, cdf) >>
            \o encode_coeffs_br_NoBreak(abs_value, level + coeff_br,
                                        rounds - 1, cdf)

RECURSIVE encode_coeffs_br(_, _, _, _)
\* encode_coeffs: the coeff_br loop, with rounds iterations left
encode_coeffs_br(abs_value, level, rounds, cdf) ==
  IF rounds = 0 THEN <<>>
  ELSE LET coeff_br == Min(abs_value - level, 3)
       IN << write_symbol(coeff_br, cdf) >>
            \o (IF coeff_br < 3 THEN <<>>
                ELSE encode_coeffs_br(abs_value, level + coeff_br,
                                      rounds - 1, cdf))

encode_coeffs_sign_PositiveOne(coeff) ==
  (IF coeff # 0
     THEN << write_literal(IF coeff > 0 THEN 1 ELSE 0, 1) >>
     ELSE <<>>)
    \o (IF abs(coeff) >= 15
          THEN << write_golomb(abs(coeff) - 15) >> ELSE <<>>)

\* encode_coeffs: the sign bit and the Golomb suffix of a coefficient
\* after the first
encode_coeffs_sign(coeff) ==
  (IF coeff # 0
     THEN << write_literal(IF coeff < 0 THEN 1 ELSE 0, 1) >>
     ELSE <<>>)
    \o (IF abs(coeff) >= 15
          THEN << write_golomb(abs(coeff) - 15) >> ELSE <<>>)

encode_coeffs_refs_Unchecked(txsize, row, col, offsets) ==
  {<<row + offsets[k][1], col + offsets[k][2]>> : k \in 1..Len(offsets)}

\* encode_coeffs: the neighbour coefficients read for the context of the
\* coefficient at (row, col)
encode_coeffs_refs(txsize, row, col, offsets) ==
  {ref \in {<<row + offsets[k][1], col + offsets[k][2]>> :
              k \in 1..Len(offsets)} :
     ref[1] < txsize /\ ref[2] < txsize}

\* A slip: the end-of-block position is stored as the level context
encode_coeffs_level_Eob(culLevel, eob) == Min(eob, 63)

\* what encode_coeffs stores into this_mi.level_ctx[plane]
encode_coeffs_level(culLevel, eob) == Min(culLevel, 63)

\* encode_coeffs: the outcome ("ok", or "panic" for a failed assertion or a
\* todo!()), this_mi as it leaves, and the calls made on the bitstream
encode_coeffs(grid, qindex, plane, mi_row, mi_col, bsize, this_mi, coeffs) ==
  LET txsize == IF plane > 0 THEN bsize \div 2 ELSE bsize
      num_coeffs == txsize * txsize
      scan == IF txsize = 4 THEN default_scan_4x4 ELSE default_scan_8x8
      at(row, col) == coeffs.data[row + 1][col + 1]
      coeff_at(c) == at(scan[c + 1][1], scan[c + 1][2])
      cul[c \in 0..num_coeffs] ==
        IF c = 0 THEN 0 ELSE cul[c - 1] + abs(coeff_at(c - 1))
      culLevel == cul[num_coeffs]
      nonzero == {c \in 0..(num_coeffs - 1) : coeff_at(c) # 0}
      eob == IF nonzero = {} THEN 0 ELSE SetMax(nonzero) + 1
      mi1 == [this_mi EXCEPT
                !.level_ctx[plane + 1] = encode_coeffs_level(culLevel, eob)]
      all_zero == eob = 0
      \* the sum over offsets of min(|coefficient|, cap) inside the block
      inside(ref) == ref[1] < coeffs.rows /\ ref[2] < coeffs.cols
      mag(row, col, offsets, cap) ==
        LET refs == encode_coeffs_refs(txsize, row, col, offsets)
            acc[k \in 0..Len(offsets)] ==
              IF k = 0 THEN 0
              ELSE LET ref == <<row + offsets[k][1], col + offsets[k][2]>>
                   IN acc[k - 1]
                        + (IF ref \in refs /\ inside(ref)
                             THEN Min(abs(at(ref[1], ref[2])), cap) ELSE 0)
        IN acc[Len(offsets)]
      \* a neighbour read past the end of the array is an index panic
      reads(c) ==
        IF c = 0 THEN {}
        ELSE (IF c = eob - 1 THEN {}
              ELSE encode_coeffs_refs(txsize, scan[c + 1][1], scan[c + 1][2],
                                      Sig_Ref_Diff_Offset))
               \cup
             (IF abs(coeff_at(c)) > 2
                THEN encode_coeffs_refs(txsize, scan[c + 1][1],
                                        scan[c + 1][2], Mag_Ref_Offset)
                ELSE {})
      reads_outside ==
        \E c \in 0..(eob - 1) : \E ref \in reads(c) : ~inside(ref)
      eob_symbols == encode_coeffs_eob_symbols(eob)
      \* the symbols of the coefficient at scan position c, and the rows
      \* of the CDF tables they are coded with
      base_symbols(c) ==
        LET row == scan[c + 1][1]
            col == scan[c + 1][2]
            abs_value == abs(coeff_at(c))
            base_eob_ctx == IF c = 0 THEN 0
                            ELSE IF c <= num_coeffs \div 8 THEN 1
                            ELSE IF c <= num_coeffs \div 4 THEN 2
                            ELSE 3
            base_ctx ==
              IF c = 0 THEN 0
              ELSE Min(round2_i32(mag(row, col, Sig_Ref_Diff_Offset, 3), 1), 4)
                     + Coeff_Base_Ctx_Offset_8x8[Min(row, 4) + 1][Min(col, 4) + 1]
            br_ctx ==
              Min(round2_i32(mag(row, col, Mag_Ref_Offset, 15), 1), 6)
                + (IF c = 0 THEN 0 ELSE IF row < 2 /\ col < 2 THEN 7 ELSE 14)
        IN [out |->
              << IF c = eob - 1
                   THEN write_symbol(abs_value - 1,
                                     coeff_base_eob_cdf[base_eob_ctx + 1])
                   ELSE write_symbol(abs_value, coeff_base_cdf[base_ctx + 1]) >>
                \o (IF abs_value > 2
                      THEN encode_coeffs_br(abs_value, 3, 4,
                                            coeff_br_cdf[br_ctx + 1])
                      ELSE <<>>),
            rows |->
              << IF c = eob - 1
                   THEN <<"coeff_base_eob_cdf", base_eob_ctx,
                          Len(coeff_base_eob_cdf)>>
                   ELSE <<"coeff_base_cdf", base_ctx, Len(coeff_base_cdf)>> >>
                \o (IF abs_value > 2
                      THEN << <<"coeff_br_cdf", br_ctx, Len(coeff_br_cdf)>> >>
                      ELSE <<>>)]
      \* high-to-low scan positions: part i is position eob - i
      base_pass == Concat([i \in 1..eob |-> base_symbols(eob - i).out], eob)
      dc_coeff == at(0, 0)
      dc_sign_cdf == << <<128 * 125>>, <<128 * 102>>, <<128 * 147>> >>
      dc_symbols ==
        (IF dc_coeff # 0
           THEN << write_symbol(
                     IF dc_coeff < 0 THEN 1 ELSE 0,
                     dc_sign_cdf[dc_sign_ctx(grid, plane, mi_row, mi_col,
                                             bsize) + 1]) >>
           ELSE <<>>)
          \o (IF abs(dc_coeff) >= 15
                THEN << write_golomb(abs(dc_coeff) - 15) >> ELSE <<>>)
      sign_pass ==
        Concat([c \in 1..(eob - 1) |-> encode_coeffs_sign(coeff_at(c))],
               eob - 1)
      mi2 == [mi1 EXCEPT !.dc_sign[plane + 1] = signum(dc_coeff)]
      \* every table row indexed, as <<table, index, rows of the table>>,
      \* the neighbour coefficients read and the MI cells read
      looked_up ==
        [rows |->
           << <<"eob_class", ceil_log2(eob), 7>> >>
             \o (IF ceil_log2(eob) > 1
                   THEN << <<"first_extra_bit_cdf", ceil_log2(eob) - 2, 5>> >>
                   ELSE <<>>)
             \o Concat([i \in 1..eob |-> base_symbols(eob - i).rows], eob)
             \o (IF dc_coeff # 0
                   THEN << <<"dc_sign_cdf",
                             dc_sign_ctx(grid, plane, mi_row, mi_col, bsize),
                             Len(dc_sign_cdf)>> >>
                   ELSE <<>>),
         refs |-> UNION {reads(c) : c \in 0..(eob - 1)},
         cells |-> IF dc_coeff # 0
                     THEN dc_sign_ctx_cells(grid, mi_row, mi_col, bsize)
                     ELSE {}]
      none == [rows |-> <<>>, refs |-> {}, cells |-> {}]
  IN IF bsize # 8
       THEN [lookups |-> none, status |-> "panic", this_mi |-> this_mi, out |-> <<>>]
     ELSE IF coeffs.rows # txsize \/ coeffs.cols # txsize
       THEN [lookups |-> none, status |-> "panic", this_mi |-> this_mi, out |-> <<>>]
     ELSE IF plane # 0
       THEN IF ~all_zero
              THEN [lookups |-> none, status |-> "panic", this_mi |-> mi1, out |-> <<>>]
              ELSE [lookups |-> none, status |-> "ok", this_mi |-> mi1,
                    out |-> << write_bool(all_zero, 2713) >>]
     ELSE IF ~(qindex > 120)
       THEN [lookups |-> none, status |-> "panic", this_mi |-> mi1, out |-> <<>>]
     ELSE IF all_zero
       THEN [lookups |-> none, status |-> "ok", this_mi |-> mi1,
             out |-> << write_bool(all_zero, 31903) >>]
     ELSE IF encode_coeffs_eob_panics(eob)
       THEN [lookups |-> none, status |-> "panic", this_mi |-> mi1,
             out |-> << write_bool(all_zero, 31903),
                        write_symbol(1, <<6554, 13107, 19661, 26214>>),
                        eob_symbols[1] >>]
     ELSE IF reads_outside
       THEN [lookups |-> none, status |-> "panic", this_mi |-> mi1,
             out |-> << write_bool(all_zero, 31903),
                        write_symbol(1, <<6554, 13107, 19661, 26214>>) >>
                       \o eob_symbols]
     ELSE [lookups |-> looked_up, status |-> "ok", this_mi |-> mi2,
           out |-> << write_bool(all_zero, 31903),
                      write_symbol(1, <<6554, 13107, 19661, 26214>>) >>
                     \o eob_symbols \o base_pass \o dc_symbols \o sign_pass]

\* The coefficients encode_block codes for luma: one fixed coefficient,
\* placed by the block's position
encode_block_y_coeffs(mi_row, mi_col) ==
  [rows |-> 8, cols |-> 8,
   data |-> [i \in 1..8 |-> [j \in 1..8 |->
              IF (mi_row + mi_col) % 8 < 4
                THEN (IF i = 2 /\ j = 1 THEN 1 ELSE 0)
                ELSE (IF i = 1 /\ j = 2 THEN -1 ELSE 0)]]]

Array2D_fill_region_panics(a, row_start, col_start, rows, cols) ==
  row_start + rows > a.rows \/ col_start + cols > a.cols

Array2D_fill_region(a, row_start, col_start, rows, cols, value) ==
  [a EXCEPT !.data =
     [r \in 1..a.rows |-> [c \in 1..a.cols |->
        IF /\ r > row_start /\ r <= row_start + rows
           /\ c > col_start /\ c <= col_start + cols
          THEN value ELSE a.data[r][c]]]]

encode_block_head_ModeFirst ==
  << write_symbol(0, <<15588, 17027, 19338, 20218, 20682, 21110, 21825,
                       23244, 24189, 28165, 29093, 30466>>),
     write_symbol(0, <<31671>>),
     write_symbol(0, <<10407, 11208, 12900, 13181, 13823, 14175, 14899,
                       15656, 15986, 20086, 20995, 22455, 24212>>) >>

\* encode_block: skip = false, intra_frame_y_mode = DC_PRED and
\* uv_mode = DC_PRED
encode_block_head ==
  << write_symbol(0, <<31671>>),
     write_symbol(0, <<15588, 17027, 19338, 20218, 20682, 21110, 21825,
                       23244, 24189, 28165, 29093, 30466>>),
     write_symbol(0, <<10407, 11208, 12900, 13181, 13823, 14175, 14899,
                       15656, 15986, 20086, 20995, 22455, 24212>>) >>

\* the coefficients encode_block hands to encode_coeffs for a plane
encode_block_coeffs(plane, mi_row, mi_col) ==
  IF plane = 0 THEN encode_block_y_coeffs(mi_row, mi_col)
  ELSE Array2D_zeroed(4, 4)

\* encode_block: the outcome, the mode_info grid and the calls made on the
\* bitstream
encode_block(grid, qindex, mi_row, mi_col, bsize) ==
  LET head == encode_block_head
      uv_coeffs == Array2D_zeroed(4, 4)
      stop(out) == [status |-> "panic", mode_info |-> grid, out |-> out]
  IN IF bsize # 8 THEN stop(<<>>)
     ELSE
       Bind(encode_coeffs(grid, qindex, 0, mi_row, mi_col, bsize,
                          ModeInfo_zeroed,
                          encode_block_y_coeffs(mi_row, mi_col)),
            LAMBDA y :
       IF y.status # "ok" THEN stop(head \o y.out)
       ELSE
       Bind(encode_coeffs(grid, qindex, 1, mi_row, mi_col, bsize, y.this_mi,
                          uv_coeffs),
            LAMBDA u :
       IF u.status # "ok" THEN stop(head \o y.out \o u.out)
       ELSE
       Bind(encode_coeffs(grid, qindex, 2, mi_row, mi_col, bsize, u.this_mi,
                          uv_coeffs),
            LAMBDA v :
       IF v.status # "ok" THEN stop(head \o y.out \o u.out \o v.out)
       ELSE IF Array2D_fill_region_panics(grid, mi_row, mi_col, bsize \div 4,
                                          bsize \div 4)
         THEN stop(head \o y.out \o u.out \o v.out)
       ELSE [status |-> "ok",
             mode_info |-> Array2D_fill_region(grid, mi_row, mi_col,
                                               bsize \div 4, bsize \div 4,
                                               v.this_mi),
             out |-> head \o y.out \o u.out \o v.out])))

\* 2 if the second half of the block, bsize / 8 MI units on, starts inside
\* the grid
encode_partition_sub(mi_pos, bsize, mi_limit) ==
  IF mi_pos + bsize \div 8 < mi_limit THEN 2 ELSE 1

encode_partition_ctx_AboveTwice(mi_row, mi_col) ==
  LET above_ctx == IF mi_row > 0 THEN 1 ELSE 0
      left_ctx == IF mi_col > 0 THEN 1 ELSE 0
  IN 2 * above_ctx + left_ctx

encode_partition_ctx(mi_row, mi_col) ==
  LET above_ctx == IF mi_row > 0 THEN 1 ELSE 0
      left_ctx == IF mi_col > 0 THEN 1 ELSE 0
  IN 2 * left_ctx + above_ctx

encode_partition_p_split_horz_HorzB(cdf) ==
  get_prob(Partition.VERT, cdf) + get_prob(Partition.SPLIT, cdf)
    + get_prob(Partition.HORZ_A, cdf) + get_prob(Partition.VERT_A, cdf)
    + get_prob(Partition.HORZ_B, cdf) + get_prob(Partition.VERT_4, cdf)

\* p_split of the choice between PARTITION_HORZ and PARTITION_SPLIT
encode_partition_p_split_horz(cdf) ==
  get_prob(Partition.VERT, cdf) + get_prob(Partition.SPLIT, cdf)
    + get_prob(Partition.HORZ_A, cdf) + get_prob(Partition.VERT_A, cdf)
    + get_prob(Partition.VERT_B, cdf) + get_prob(Partition.VERT_4, cdf)

\* p_split of the choice between PARTITION_VERT and PARTITION_SPLIT
encode_partition_p_split_vert(cdf) ==
  get_prob(Partition.HORZ, cdf) + get_prob(Partition.SPLIT, cdf)
    + get_prob(Partition.HORZ_A, cdf) + get_prob(Partition.HORZ_B, cdf)
    + get_prob(Partition.VERT_A, cdf) + get_prob(Partition.HORZ_4, cdf)

encode_partition_symbol_ForcedCoded(cdf, sub_rows, sub_cols) ==
  IF sub_rows > 1 /\ sub_cols > 1
    THEN << write_symbol(3, cdf) >>
  ELSE IF sub_cols > 1
    THEN << write_bit(1, 32768 - encode_partition_p_split_horz(cdf)) >>
  ELSE << write_bit(1, 32768 - encode_partition_p_split_vert(cdf)) >>

\* what the partition of a block larger than 8x8 writes
encode_partition_symbol(cdf, sub_rows, sub_cols) ==
  IF sub_rows > 1 /\ sub_cols > 1
    THEN << write_symbol(3, cdf) >>
  ELSE IF sub_cols > 1
    THEN << write_bit(1, 32768 - encode_partition_p_split_horz(cdf)) >>
  ELSE IF sub_rows > 1
    THEN << write_bit(1, 32768 - encode_partition_p_split_vert(cdf)) >>
  ELSE <<>>

encode_partition_calls_ColumnFirst(mi_row, mi_col, bsize, sub_rows, sub_cols) ==
  LET offset == bsize \div 8
  IN [k \in 1..(sub_rows * sub_cols) |->
        << mi_row + ((k - 1) % sub_rows) * offset,
           mi_col + ((k - 1) \div sub_rows) * offset,
           bsize \div 2 >>]

encode_partition_calls_LastFirst(mi_row, mi_col, bsize, sub_rows, sub_cols) ==
  LET offset == bsize \div 8
      n == sub_rows * sub_cols
  IN [k \in 1..n |->
        << mi_row + ((n - k) \div sub_cols) * offset,
           mi_col + ((n - k) % sub_cols) * offset,
           bsize \div 2 >>]

\* the recursive calls, in the order of the two nested loops
encode_partition_calls(mi_row, mi_col, bsize, sub_rows, sub_cols) ==
  LET offset == bsize \div 8
  IN [k \in 1..(sub_rows * sub_cols) |->
        << mi_row + ((k - 1) \div sub_cols) * offset,
           mi_col + ((k - 1) % sub_cols) * offset,
           bsize \div 2 >>]

\* encode_partition for a block larger than 8x8: the symbol it writes and
\* the calls it makes, in order
encode_partition(grid, mi_row, mi_col, bsize) ==
  LET sub_rows == encode_partition_sub(mi_row, bsize, grid.rows)
      sub_cols == encode_partition_sub(mi_col, bsize, grid.cols)
      bsize_ctx == IF bsize = 16 THEN 0 ELSE IF bsize = 32 THEN 1 ELSE 2
      ctx == encode_partition_ctx(mi_row, mi_col)
      cdf == all_cdfs[bsize_ctx + 1][ctx + 1]
  IN [status |-> IF bsize \in {16, 32, 64} THEN "ok" ELSE "panic",
      out |-> encode_partition_symbol(cdf, sub_rows, sub_cols),
      calls |-> encode_partition_calls(mi_row, mi_col, bsize, sub_rows,
                                       sub_cols)]

(* y4m.rs: the constants read_frame uses *)
Y4M_FRAME_MAGIC == <<70, 82, 65, 77, 69>>
Newline == 10

\* read_frame from the first pixel byte on: Frame::new and the three
\* read_from calls
Y4MReader_read_planes(reader) ==
  LET new == Frame_new(reader.height, reader.width)
  IN Bind(Plane_read_from(new[1], reader.inner, reader.pos), LAMBDA y :
     IF y.status # "ok" THEN [status |-> y.status]
     ELSE
     Bind(Plane_read_from(new[2], reader.inner, y.pos), LAMBDA u :
     IF u.status # "ok" THEN [status |-> u.status]
     ELSE
     Bind(Plane_read_from(new[3], reader.inner, u.pos), LAMBDA v :
     IF v.status # "ok" THEN [status |-> v.status]
     ELSE [status |-> "ok", frame |-> <<y.plane, u.plane, v.plane>>,
           pos |-> v.pos])))

---------------------------------------------------------------------------
(* Idle values of each component's variables, for the specifications that
   do not use the component *)

LebIdle == leb_value = <<0, 0>> /\ leb_w = <<>>
ObuIdle == /\ sequence_header = <<>> /\ frame_header = <<>> /\ tile_data = <<>>
           /\ include_temporal_delimiter = FALSE /\ av1_data = <<>>
EncIdle == encoder = NoEncoder /\ add_trailing_one_bit = FALSE
FrameIdle == /\ y4m = [inner |-> <<>>, pos |-> 0, width |-> 0, height |-> 0]
             /\ y4m_frame = <<>> /\ plane_idx = 0
BlockIdle == /\ block_mi = <<>> /\ block_plane = 0 /\ pred_plane = <<>>
             /\ pred_args = <<>> /\ btf_args = <<>> /\ btf_out = 0
             /\ lookups = <<>>
TileIdle == /\ mode_info = Array2D_zeroed(0, 0) /\ frame = <<>>
            /\ bitstream = <<>> /\ calls = <<>> /\ visited = <<>>
            /\ tx_block = Array2D_zeroed(0, 0) /\ q_steps = <<>>
  /\ prob_cdf = <<>> /\ probs = <<>> /\ BlockIdle
AvifIdle == /\ avif_args = <<>> /\ avif = <<>> /\ boxes = <<>>
            /\ closed_boxes = {}
            /\ content_pos_marker = 0 /\ content_pos = 0 /\ ip = 0
            /\ avif_out = <<>>

---------------------------------------------------------------------------
(* Specification SpecLeb: write_leb128 applied to one value *)

MaxSmallValue == 300

LebLowSamples == (0..MaxSmallValue) \cup
  {16383, 16384, 2097151, 2097152, Limb - 1}
LebHighSamples == {0, 1, 127, 128, 16384, Limb - 1}

InitLeb ==
  /\ pc = "leb_start"
  /\ leb_value \in LebHighSamples \X LebLowSamples
  /\ leb_w = <<>>
  /\ ObuIdle /\ EncIdle /\ AvifIdle /\ FrameIdle /\ TileIdle

WriteLeb ==
  /\ pc = "leb_start"
  /\ leb_w' = write_leb128(leb_w, leb_value)
  /\ pc' = "leb_done"
  /\ UNCHANGED <<leb_value, obuVars, encVars, avifVars, frameVars, tileVars>>

NextLeb == WriteLeb

SpecLeb == InitLeb /\ [][NextLeb]_vars

\* A decoder of LEB128: the sum of (byte & 0x7F) << 7*i, in limbs
RECURSIVE LebDecodeFrom(_, _)
LebDecodeFrom(bytes, i) ==
  IF i > Len(bytes) THEN <<0, 0>>
  ELSE LET rest == LebDecodeFrom(bytes, i + 1)
           d    == bytes[i] % 128
       IN  IF i <= 4 THEN <<rest[1], rest[2] + d * Pow2(7 * (i - 1))>>
           ELSE <<rest[1] + d * Pow2(7 * (i - 5)), rest[2]>>

LebDecode(bytes) == LebDecodeFrom(bytes, 1)

\* The boundary encodings the specification lists
LebExamples ==
  (    <<0, 0>>     :> <<0>>
    @@ <<0, 127>>   :> <<127>>
    @@ <<0, 128>>   :> <<128, 1>>
    @@ <<0, 16383>> :> <<255, 127>>
    @@ <<0, 16384>> :> <<128, 128, 1>> )

\* C5: write_leb128 emits 1..8 bytes for a value below 2^56, the high bit set
\* on every byte but the last; decoding the bytes gives the value back (so
\* distinct values have distinct encodings), and 0, 127, 128, 16383, 16384
\* are written as 00, 7F, 80 01, FF 7F, 80 80 01.
C5_LebRoundTrip ==
  pc = "leb_done" =>
    /\ Len(leb_w) \in 1..8
    /\ \A i \in 1..Len(leb_w) :
         /\ leb_w[i] \in 0..255
         /\ (leb_w[i] >= 128) <=> (i < Len(leb_w))
    /\ LebDecode(leb_w) = leb_value
    /\ leb_value \in DOMAIN LebExamples => leb_w = LebExamples[leb_value]

C5_Witness ==
  /\ pc = "leb_done"
  /\ leb_value = <<0, 16384>>
  /\ leb_w = <<128, 128, 1>>

---------------------------------------------------------------------------
(* Specification SpecObu: pack_obus applied to byte strings whose lengths
   reach the one-, two- and three-byte LEB128 sizes *)

MaxTileLen == 16500

\* Payload bytes that look like an OBU header (0x32) or like a LEB128
\* continuation byte (0x80)
ObuFillBytes == {50, 128}
ObuPayloads(lens) == {Repeat(b, n) : b \in ObuFillBytes, n \in lens}

InitObu ==
  /\ pc = "obu_start"
  /\ sequence_header \in ObuPayloads({0, 9, 127, 128})
  /\ frame_header \in ObuPayloads({0, 5, 127})
  /\ tile_data \in ObuPayloads({0, 1, 123, 16378, 16379, MaxTileLen})
  /\ include_temporal_delimiter \in BOOLEAN
  /\ av1_data = <<>>
  /\ LebIdle /\ EncIdle /\ AvifIdle /\ FrameIdle /\ TileIdle

PackObus ==
  /\ pc = "obu_start"
  /\ av1_data' = pack_obus(sequence_header, frame_header, tile_data,
                           include_temporal_delimiter)
  /\ pc' = "obu_done"
  /\ UNCHANGED <<lebVars, encVars, avifVars, frameVars, tileVars, sequence_header, frame_header, tile_data,
                 include_temporal_delimiter>>

NextObu == PackObus

SpecObu == InitObu /\ [][NextObu]_vars

\* An OBU reader: header byte, LEB128 size, that many payload bytes; the
\* list of <<header, payload>> read from position pos to the end of data, or
\* <<"malformed">> when a size or a payload runs past the end
RECURSIVE ObuLebAt(_, _, _)
ObuLebAt(data, pos, shift) ==
  IF pos > Len(data) THEN [value |-> -1, next |-> pos]
  ELSE IF data[pos] < 128
       THEN [value |-> data[pos] * Pow2(shift), next |-> pos + 1]
       ELSE LET rest == ObuLebAt(data, pos + 1, shift + 7)
            IN  IF rest.value < 0 THEN rest
                ELSE [value |-> (data[pos] % 128) * Pow2(shift) + rest.value,
                      next  |-> rest.next]

RECURSIVE ParseObus(_, _)
ParseObus(data, pos) ==
  IF pos > Len(data) THEN <<>>
  ELSE LET size == ObuLebAt(data, pos + 1, 0)
       IN  IF size.value < 0 \/ size.next + size.value - 1 > Len(data)
           THEN <<"malformed">>
           ELSE <<  <<data[pos],
                      SubSeq(data, size.next, size.next + size.value - 1)>>  >>
                \o ParseObus(data, size.next + size.value)

\* The length of the LEB128 encoding of n
LebLen(n) == IF n < 128 THEN 1 ELSE IF n < 16384 THEN 2 ELSE 3

\* C1: the output of pack_obus reads back as exactly the temporal delimiter
\* (only when asked for), the sequence header OBU 0x0A and the frame OBU 0x32
\* whose payload is the frame header followed by the tile data: every size
\* field counts the payload bytes up to the next OBU header or the end; the
\* size fields have the LEB128 length of the payload size; with the
\* delimiter the output begins 12 00 0A, without it 0A.
C1_PackObus ==
  pc = "obu_done" =>
    /\ ParseObus(av1_data, 1) =
         (IF include_temporal_delimiter THEN << <<18, <<>> >> >> ELSE <<>>)
         \o << <<10, sequence_header>>, <<50, frame_header \o tile_data>> >>
    /\ Len(av1_data) =
         (IF include_temporal_delimiter THEN 2 ELSE 0)
         + 1 + LebLen(Len(sequence_header)) + Len(sequence_header)
         + 1 + LebLen(Len(frame_header) + Len(tile_data))
         + Len(frame_header) + Len(tile_data)
    /\ include_temporal_delimiter => SubSeq(av1_data, 1, 3) = <<18, 0, 10>>
    /\ ~include_temporal_delimiter => av1_data[1] = 10

\* A packed stream with the delimiter, a two-byte sequence header size and a
\* three-byte frame size
C1_Witness ==
  /\ pc = "obu_done"
  /\ include_temporal_delimiter
  /\ Len(sequence_header) = 128
  /\ Len(frame_header) = 5 /\ Len(tile_data) = 16379
  /\ SubSeq(av1_data, 1, 5) = <<18, 0, 10, 128, 1>>
  /\ SubSeq(av1_data, 134, 137) = <<50, 128, 128, 1>>

---------------------------------------------------------------------------
(* Specification SpecHdr: an encoder is built for a crop size and a qindex
   and its two headers are generated; or main.rs generates its headers *)

CropWidths  == {0, 1, 8, 37, 57, 64, 65, 72, 256, 65535, 65536, 65537}
CropHeights == {0, 1, 8, 21, 64, 65, 100, 65536, 65537}
QIndexes    == {0, 1, 20, 21, 60, 61, 100, 120, 121, 200, 255}

InitHdr ==
  /\ pc = "hdr_new"
  /\ encoder = NoEncoder
  /\ add_trailing_one_bit = FALSE
  /\ sequence_header = <<>> /\ frame_header = <<>> /\ tile_data = <<>>
  /\ include_temporal_delimiter = FALSE /\ av1_data = <<>>
  /\ LebIdle /\ AvifIdle /\ FrameIdle /\ TileIdle

New ==
  /\ pc = "hdr_new"
  /\ \E w \in CropWidths, h \in CropHeights, q \in QIndexes :
       /\ encoder' = AV1Encoder_new(w, h, q)
       /\ pc' = IF encoder' = Panicked THEN "panic" ELSE "hdr_seq"
  /\ UNCHANGED <<lebVars, obuVars, avifVars, frameVars, tileVars, add_trailing_one_bit>>

GenerateSequenceHeader ==
  /\ pc = "hdr_seq"
  /\ sequence_header' = generate_sequence_header(encoder)
  /\ pc' = "hdr_frame"
  /\ UNCHANGED <<lebVars, encVars, avifVars, frameVars, tileVars, frame_header, tile_data,
                 include_temporal_delimiter, av1_data>>

GenerateFrameHeader ==
  /\ pc = "hdr_frame"
  /\ \E t \in BOOLEAN :
       /\ add_trailing_one_bit' = t
       /\ frame_header' = generate_frame_header(encoder, t)
  /\ pc' = "hdr_done"
  /\ UNCHANGED <<lebVars, avifVars, frameVars, tileVars, encoder, sequence_header, tile_data,
                 include_temporal_delimiter, av1_data>>

\* main.rs main(): both headers for the fixed size, no trailing bit
MainGenerateHeaders ==
  /\ pc = "hdr_new"
  /\ sequence_header' = main_generate_sequence_header(main_width, main_height)
  /\ frame_header' =
       main_generate_frame_header(main_width, main_height, main_qindex, FALSE)
  /\ pc' = "main_done"
  /\ UNCHANGED <<lebVars, encVars, avifVars, frameVars, tileVars, tile_data, include_temporal_delimiter,
                 av1_data>>

NextHdr ==
  \/ New
  \/ GenerateSequenceHeader
  \/ GenerateFrameHeader
  \/ MainGenerateHeaders

SpecHdr == InitHdr /\ [][NextHdr]_vars

\* Reading a header back: bit i (from 0, most significant first) of a byte
\* string, and the unsigned value of the n bits from bit offset i
BitAt(bytes, i) == (bytes[(i \div 8) + 1] \div Pow2(7 - (i % 8))) % 2

RECURSIVE BitsValue(_, _, _)
BitsValue(bytes, i, n) ==
  IF n = 0 THEN 0
  ELSE 2 * BitsValue(bytes, i, n - 1) + BitAt(bytes, i + n - 1)

\* The crop size a generated sequence header was built for
HdrCropWidth  == IF pc = "main_done" THEN main_width  ELSE encoder.y_crop_width
HdrCropHeight == IF pc = "main_done" THEN main_height ELSE encoder.y_crop_height

\* C2: the sequence header is 9 bytes, the last one 0x80 (64 syntax bits, the
\* trailing 1 bit, zero padding); bits 18..33 hold crop width - 1 and bits
\* 34..49 hold crop height - 1, after the two 4-bit fields of value 15.
C2_SequenceHeader ==
  pc \in {"hdr_frame", "hdr_done", "main_done"} =>
    /\ Len(sequence_header) = 9
    /\ sequence_header[9] = 128
    /\ BitsValue(sequence_header, 10, 4) = 15
    /\ BitsValue(sequence_header, 14, 4) = 15
    /\ BitsValue(sequence_header, 18, 16) = HdrCropWidth - 1
    /\ BitsValue(sequence_header, 34, 16) = HdrCropHeight - 1
    /\ HdrCropWidth \in 1..65536 /\ HdrCropHeight \in 1..65536

\* The header of the 37x21 crop (padded 40x24) holds 36 and 20
C2_Witness ==
  /\ pc = "hdr_frame"
  /\ encoder.y_crop_width = 37 /\ encoder.y_crop_height = 21
  /\ encoder.y_width = 40 /\ encoder.y_height = 24
  /\ BitsValue(sequence_header, 18, 16) = 36
  /\ BitsValue(sequence_header, 34, 16) = 20

\* The arguments a generated frame header was built from
HdrWidth    == IF pc = "main_done" THEN main_width   ELSE encoder.y_width
HdrHeight   == IF pc = "main_done" THEN main_height  ELSE encoder.y_height
HdrQIndex   == IF pc = "main_done" THEN main_qindex  ELSE encoder.qindex
HdrTrailing == IF pc = "main_done" THEN FALSE ELSE add_trailing_one_bit

Indicator(b) == IF b THEN 1 ELSE 0

\* C3: with c = [padded width > 64], r = [padded height > 64] and
\* t = [add_trailing_one_bit], the frame header holds 36 + c + r + t bits
\* before its zero padding: 1 0 0 1, then c + r zero bits, then the 8-bit
\* base_qindex, then 22 zero bits, 0, 1, then a 1 bit only when t.
C3_FrameHeader ==
  pc \in {"hdr_done", "main_done"} =>
    LET c == Indicator(HdrWidth > 64)
        r == Indicator(HdrHeight > 64)
        t == Indicator(HdrTrailing)
        n == 36 + c + r + t
    IN  /\ Len(frame_header) = (n + 7) \div 8
        /\ BitsValue(frame_header, 0, 4) = 9
        /\ BitsValue(frame_header, 4, c + r) = 0
        /\ BitsValue(frame_header, 4 + c + r, 8) = HdrQIndex
        /\ BitsValue(frame_header, 12 + c + r, 23) = 0
        /\ BitAt(frame_header, 35 + c + r) = 1
        /\ (t = 1) => BitAt(frame_header, 36 + c + r) = 1
        /\ \A i \in n .. (8 * Len(frame_header) - 1) :
             BitAt(frame_header, i) = 0

\* A 72x64 frame: one tile-column bit, no tile-row bit, a trailing bit
C3_Witness ==
  /\ pc = "hdr_done"
  /\ encoder.y_width = 72 /\ encoder.y_height = 64
  /\ encoder.qindex = 200
  /\ add_trailing_one_bit
  /\ frame_header = <<150, 64, 0, 0, 12>>

---------------------------------------------------------------------------
(* SpecAvif: pack_avif run statement by statement on an ISOBMFFWriter *)

MaxAv1Len == 300
Av1Fill == {0, 77, 255}
Av1Lens == {0, 1, 9, 255, 256, MaxAv1Len}
AvifCrops == {<<1, 1>>, <<37, 21>>, <<64, 64>>, <<65536, 65536>>}
AvifColors == {<<1, 13, 6>>, <<2, 2, 2>>, <<9, 16, 9>>}

AvifProgram ==
  pack_avif(av1_data, avif_args[1], avif_args[2], avif_args[3], avif_args[4],
            avif_args[5])
AvifOp == AvifProgram[ip]
AvifAt(method) == pc = "avif_run" /\ AvifOp[1] = method
\* the handle a method is called on is the innermost open box
AvifOnOpenBox == boxes # <<>> /\ boxes[Len(boxes)].name = AvifOp[2]

InitAvif ==
  /\ pc = "avif_run"
  /\ \E n \in Av1Lens, b \in Av1Fill : av1_data = Repeat(b, n)
  /\ \E c \in AvifCrops, k \in AvifColors : avif_args = c \o k
  /\ avif = <<>> /\ boxes = <<>> /\ closed_boxes = {}
  /\ content_pos_marker = 0 /\ content_pos = 0
  /\ ip = 1
  /\ avif_out = <<>>
  /\ sequence_header = <<>> /\ frame_header = <<>> /\ tile_data = <<>>
  /\ include_temporal_delimiter = FALSE
  /\ LebIdle /\ EncIdle /\ FrameIdle /\ TileIdle

AvifKeep ==
  UNCHANGED <<lebVars, obuVars, encVars, frameVars, tileVars, avif_args,
              avif_out, closed_boxes>>

OpenBox ==
  /\ AvifAt("open_box")
  /\ Len(AvifOp[3]) = 4
  /\ boxes' = Append(boxes, [name |-> AvifOp[2], size_pos |-> Len(avif)])
  /\ avif' = ISOBMFF_open_box(avif, AvifOp[3])
  /\ ip' = ip + 1
  /\ UNCHANGED <<pc, content_pos_marker, content_pos>> /\ AvifKeep

OpenBoxWithVersion ==
  /\ AvifAt("open_box_with_version")
  /\ Len(AvifOp[3]) = 4 /\ AvifOp[5] < 16777216
  /\ boxes' = Append(boxes, [name |-> AvifOp[2], size_pos |-> Len(avif)])
  /\ avif' = ISOBMFF_open_box_with_version(avif, AvifOp[3], AvifOp[4],
                                           AvifOp[5])
  /\ ip' = ip + 1
  /\ UNCHANGED <<pc, content_pos_marker, content_pos>> /\ AvifKeep

WriteU8 ==
  /\ AvifAt("write_u8") /\ AvifOnOpenBox
  /\ avif' = ISOBMFFBox_write_u8(avif, AvifOp[3])
  /\ ip' = ip + 1
  /\ UNCHANGED <<pc, boxes, content_pos_marker, content_pos>> /\ AvifKeep

WriteU16 ==
  /\ AvifAt("write_u16") /\ AvifOnOpenBox
  /\ avif' = ISOBMFFBox_write_u16(avif, AvifOp[3])
  /\ ip' = ip + 1
  /\ UNCHANGED <<pc, boxes, content_pos_marker, content_pos>> /\ AvifKeep

WriteU32 ==
  /\ AvifAt("write_u32") /\ AvifOnOpenBox
  /\ avif' = ISOBMFFBox_write_u32(avif, AvifOp[3])
  /\ ip' = ip + 1
  /\ UNCHANGED <<pc, boxes, content_pos_marker, content_pos>> /\ AvifKeep

WriteBytes ==
  /\ AvifAt("write_bytes") /\ AvifOnOpenBox
  /\ avif' = ISOBMFFBox_write_bytes(avif, AvifOp[3])
  /\ ip' = ip + 1
  /\ UNCHANGED <<pc, boxes, content_pos_marker, content_pos>> /\ AvifKeep

MarkU32 ==
  /\ AvifAt("mark_u32") /\ AvifOnOpenBox
  /\ content_pos_marker' = ISOBMFFBox_mark_u32(avif).marker
  /\ avif' = ISOBMFFBox_mark_u32(avif).data
  /\ ip' = ip + 1
  /\ UNCHANGED <<pc, boxes, content_pos>> /\ AvifKeep

GetFilePos ==
  /\ AvifAt("get_file_pos") /\ AvifOnOpenBox
  \* "as u32" keeps a position below 2^32 as it is
  /\ content_pos' = ISOBMFF_get_file_pos(avif)
  /\ ip' = ip + 1
  /\ UNCHANGED <<pc, avif, boxes, content_pos_marker>> /\ AvifKeep

DropBox ==
  /\ AvifAt("drop") /\ AvifOnOpenBox
  /\ avif' = ISOBMFFBox_drop(avif, boxes[Len(boxes)].size_pos)
  /\ boxes' = SubSeq(boxes, 1, Len(boxes) - 1)
  /\ ip' = ip + 1
  /\ UNCHANGED <<pc, content_pos_marker, content_pos>> /\ AvifKeep

WriteU32AtMarker ==
  /\ AvifAt("write_u32_at_marker") /\ boxes = <<>>
  /\ IF Len(avif) >= content_pos_marker + 4
       THEN /\ avif' = ISOBMFFWriter_write_u32_at_marker(
                         avif, content_pos_marker, content_pos)
            /\ ip' = ip + 1
            /\ pc' = pc
       ELSE /\ pc' = "panic"
            /\ UNCHANGED <<avif, ip>>
  /\ UNCHANGED <<boxes, content_pos_marker, content_pos>> /\ AvifKeep

Finalize ==
  /\ AvifAt("finalize") /\ boxes = <<>>
  /\ avif_out' = ISOBMFFWriter_finalize(avif)
  /\ pc' = "avif_done"
  /\ UNCHANGED <<lebVars, obuVars, encVars, frameVars, tileVars, avif_args, avif, boxes,
                 closed_boxes, content_pos_marker, content_pos, ip>>

NextAvif ==
  \/ OpenBox \/ OpenBoxWithVersion \/ WriteU8 \/ WriteU16 \/ WriteU32
  \/ WriteBytes \/ MarkU32 \/ GetFilePos \/ DropBox \/ WriteU32AtMarker
  \/ Finalize

SpecAvif == InitAvif /\ [][NextAvif]_vars

(* An ISOBMFF reader, independent of the writer: boxes are found by walking
   the size fields. *)
U32At(data, pos) ==
  data[pos + 1] * 16777216 + data[pos + 2] * 65536 + data[pos + 3] * 256
    + data[pos + 4]

\* position of the first box of type typ among the boxes laid out in
\* [from, to), or -1
RECURSIVE FindBox(_, _, _, _)
FindBox(data, from, to, typ) ==
  IF from + 8 > to THEN -1
  ELSE IF SubSeq(data, from + 5, from + 8) = typ THEN from
  ELSE IF U32At(data, from) < 8 THEN -1
  ELSE FindBox(data, from + U32At(data, from), to, typ)

MetaPos(data) == FindBox(data, 0, Len(data), <<109, 101, 116, 97>>)
IlocPos(data) ==
  FindBox(data, MetaPos(data) + 12, MetaPos(data) + U32At(data, MetaPos(data)),
          <<105, 108, 111, 99>>)
MdatPos(data) == FindBox(data, 0, Len(data), <<109, 100, 97, 116>>)
\* iloc: 12 header bytes, 0x44, 0, item count, item id, data reference
\* index, extent count; then the extent's offset and length
IlocExtentOffsetPos(data) == IlocPos(data) + 22
IlocExtentLengthPos(data) == IlocPos(data) + 26

AvifFileOK ==
  /\ MetaPos(avif_out) >= 0 /\ MdatPos(avif_out) >= 0
  /\ IlocPos(avif_out) >= 0
  /\ LET off == MdatPos(avif_out) + 8
         len == Len(av1_data)
         FieldAt(pos) == SubSeq(avif_out, pos + 1, pos + 4)
     IN /\ FieldAt(IlocExtentOffsetPos(avif_out)) = U32BE(off)
        /\ FieldAt(IlocExtentLengthPos(avif_out)) = U32BE(len)
        /\ off + len <= Len(avif_out)
        /\ SubSeq(avif_out, off + 1, off + len) = av1_data

AvifPatchOK ==
  AvifAt("write_u32_at_marker") =>
    /\ pc' = "avif_run"
    /\ SubSeq(avif, content_pos_marker + 1, content_pos_marker + 4)
         = <<0, 0, 0, 0>>
    /\ Len(avif') = Len(avif)
    /\ \A i \in 1..Len(avif) :
         (i <= content_pos_marker \/ i > content_pos_marker + 4)
           => avif'[i] = avif[i]

\* C4: in the file pack_avif returns, the iloc extent offset is the file
\* offset of the first byte of the mdat payload, the extent length is
\* len(av1_data), and the bytes at [offset, offset + length) are av1_data;
\* the offset field holds zero until write_u32_at_marker patches it, and the
\* patch changes no byte outside that field.
C4_PackAvif ==
  [][AvifPatchOK /\ (pc' = "avif_done" => AvifFileOK')]_vars

C4_Witness ==
  /\ pc = "avif_done"
  /\ Len(av1_data) = 256 /\ av1_data[1] = 77
  /\ avif_args = <<37, 21, 1, 13, 6>>
  /\ content_pos > 255
  /\ U32At(avif_out, content_pos_marker) = content_pos
  /\ content_pos = MdatPos(avif_out) + 8

---------------------------------------------------------------------------
(* SpecFrame: Y4MReader::read_frame on a reader whose header gave a
   width x height image; the stream holds one frame line and pixel bytes,
   possibly too few. *)

MaxFrameWidth == 16
FrameWidths  == {1, 2, 6, 8, 10, MaxFrameWidth}
FrameHeights == {1, 2, 4, 8, 12}
PixelSeeds == {1, 100}
FrameLines == {<<70, 82, 65, 77, 69, 10>>,
               <<70, 82, 65, 77, 69, 32, 73, 112, 10>>,
               <<70, 82, 65, 77, 88, 10>>,
               <<70, 82>>}

\* the pixel bytes of a stream: neighbours differ, and none is zero
PixelByte(seed, i) == 1 + ((seed + 37 * i) % 255)
\* bytes of one 4:2:0 frame of the given size
FrameBytes(width, height) ==
  width * height + 2 * round2(width, 1) * round2(height, 1)

InitFrame ==
  /\ pc = "y4m_frame"
  /\ \E w \in FrameWidths, h \in FrameHeights, seed \in PixelSeeds,
        line \in FrameLines :
     \E missing \in {0, 1, FrameBytes(w, h) - Min(3, FrameBytes(w, h))} :
       y4m = [inner |-> line \o [i \in 1..(FrameBytes(w, h) - missing) |->
                                   PixelByte(seed, i)],
              pos |-> 0, width |-> w, height |-> h]
  /\ y4m_frame = <<>> /\ plane_idx = 0
  /\ LebIdle /\ ObuIdle /\ EncIdle /\ AvifIdle /\ TileIdle

FrameKeep == UNCHANGED <<lebVars, obuVars, encVars, avifVars, tileVars>>

\* position after the first newline at or after position from, or -1
RECURSIVE AfterNewline(_, _)
AfterNewline(inner, from) ==
  IF from >= Len(inner) THEN -1
  ELSE IF inner[from + 1] = Newline THEN from + 1
  ELSE AfterNewline(inner, from + 1)

\* read_frame up to Frame::new: the magic, the rest of the frame line
ReadFrameLine ==
  /\ pc = "y4m_frame"
  /\ LET inner == y4m.inner
         after == AfterNewline(inner, y4m.pos + 5)
     IN IF Len(inner) < y4m.pos + 5
          THEN pc' = "io_error" /\ UNCHANGED <<y4m, y4m_frame>>
        ELSE IF SubSeq(inner, y4m.pos + 1, y4m.pos + 5) # Y4M_FRAME_MAGIC
          THEN pc' = "panic" /\ UNCHANGED <<y4m, y4m_frame>>
        ELSE IF after < 0
          THEN pc' = "io_error" /\ UNCHANGED <<y4m, y4m_frame>>
        ELSE /\ pc' = "y4m_plane"
             /\ y4m' = [y4m EXCEPT !.pos = after]
             /\ y4m_frame' = Frame_new(y4m.height, y4m.width)
  /\ plane_idx' = 0
  /\ FrameKeep

\* frame.y_mut().read_from, then u_mut(), then v_mut(); an error or a panic
\* drops the frame
ReadPlane ==
  /\ pc = "y4m_plane"
  /\ LET res == Plane_read_from(y4m_frame[plane_idx + 1], y4m.inner, y4m.pos)
     IN IF res.status = "ok"
          THEN /\ y4m_frame' = [y4m_frame EXCEPT ![plane_idx + 1] = res.plane]
               /\ y4m' = [y4m EXCEPT !.pos = res.pos]
               /\ plane_idx' = plane_idx + 1
               /\ pc' = IF plane_idx = 2 THEN "y4m_done" ELSE "y4m_plane"
          ELSE /\ y4m_frame' = <<>>
               /\ pc' = IF res.status = "err" THEN "io_error" ELSE "panic"
               /\ UNCHANGED <<y4m, plane_idx>>
  /\ FrameKeep

\* fill_padding called again on a plane of the frame read_frame returned
FillPadding ==
  /\ pc = "y4m_done"
  /\ \E p \in 1..3 :
       IF Plane_fill_padding_panics(y4m_frame[p])
         THEN pc' = "panic" /\ UNCHANGED y4m_frame
         ELSE /\ pc' = pc
              /\ y4m_frame' =
                   [y4m_frame EXCEPT ![p] = Plane_fill_padding(y4m_frame[p])]
  /\ UNCHANGED <<y4m, plane_idx>>
  /\ FrameKeep

NextFrame == ReadFrameLine \/ ReadPlane \/ FillPadding

SpecFrame == InitFrame /\ [][NextFrame]_vars

\* where plane p (1 = Y, 2 = U, 3 = V) starts in the stream
PlaneStart(p) ==
  LET first == AfterNewline(y4m.inner, 5)
      y_len == y4m.width * y4m.height
      uv_len == round2(y4m.width, 1) * round2(y4m.height, 1)
  IN IF p = 1 THEN first
     ELSE IF p = 2 THEN first + y_len
     ELSE first + y_len + uv_len

\* the byte the stream holds for the in-crop pixel (row, col) of plane p
StreamPixel(p, row, col) ==
  y4m.inner[PlaneStart(p) + row * y4m_frame[p].crop_width + col + 1]

PlaneWasRead(p) == pc \in {"y4m_plane", "y4m_done"} /\ p <= plane_idx

PaddingReplicates(p) ==
  LET plane == y4m_frame[p]
      px == plane.pixels.data
  IN \A r \in 0..(Plane_height(plane) - 1), c \in 0..(Plane_width(plane) - 1) :
       LET rr == Min(r, plane.crop_height - 1)
           cc == Min(c, plane.crop_width - 1)
       IN /\ px[r + 1][c + 1] = px[rr + 1][cc + 1]
          /\ px[rr + 1][cc + 1] = StreamPixel(p, rr, cc)

\* C9: after read_from, and after any further fill_padding, every pixel
\* (r, c) of a plane's buffer equals the in-crop pixel at
\* (min(r, crop_height - 1), min(c, crop_width - 1)), the in-crop pixels are
\* the ones read, and one more fill_padding changes nothing.
C9_FillPadding ==
  \A p \in 1..3 :
    PlaneWasRead(p) =>
      /\ PaddingReplicates(p)
      /\ ~Plane_fill_padding_panics(y4m_frame[p])
      /\ Plane_fill_padding(y4m_frame[p]) = y4m_frame[p]

C9_Witness ==
  /\ pc = "y4m_done"
  /\ y4m.width = 10 /\ y4m.height = 12
  /\ Plane_width(y4m_frame[1]) = 16 /\ Plane_height(y4m_frame[1]) = 16
  /\ y4m_frame[1].pixels.data[16][16] = StreamPixel(1, 11, 9)
  /\ y4m_frame[1].pixels.data[3][16] = StreamPixel(1, 2, 9)
  /\ y4m_frame[1].pixels.data[16][3] = StreamPixel(1, 11, 2)
  /\ StreamPixel(1, 11, 9) # StreamPixel(1, 11, 8)

---------------------------------------------------------------------------
(* SpecTile: an image read by the Y4M reader, then AV1Encoder::new and
   encode_image for an image of that size.  encode_partition's recursion is
   the list of pending calls. *)

MaxTileWidth == 72
TileSizes == {<<8, 8>>, <<16, 16>>, <<24, 16>>, <<12, 10>>, <<16, 40>>,
              <<MaxTileWidth, 64>>, <<MaxTileWidth, MaxTileWidth>>}
TileQIndexes == {0, 1, 20, 100, 120, 121, 200, 255}
\* pixel streams: a flat mid-grey image, or PixelByte with this seed
TileFills == {128, 1}

TileStream(w, h, fill) ==
  <<70, 82, 65, 77, 69, 10>>
    \o [i \in 1..FrameBytes(w, h) |->
          IF fill = 128 THEN 128 ELSE PixelByte(fill, i)]

InitTile ==
  /\ pc = "tile_new"
  /\ \E size \in TileSizes, fill \in TileFills :
       \E inner \in {TileStream(size[1], size[2], fill)} :
         \E read \in {Y4MReader_read_planes(
                        [inner |-> inner, pos |-> 6, width |-> size[1],
                         height |-> size[2]])} :
           /\ read.status = "ok"
           /\ y4m = [inner |-> inner, pos |-> read.pos, width |-> size[1],
                     height |-> size[2]]
           /\ y4m_frame = read.frame
  /\ plane_idx = 3
  /\ encoder = NoEncoder /\ add_trailing_one_bit = FALSE
  /\ mode_info = Array2D_zeroed(0, 0) /\ frame = <<>>
  /\ bitstream = <<>> /\ calls = <<>> /\ visited = <<>>
  /\ tx_block = Array2D_zeroed(0, 0) /\ q_steps = <<>>
  /\ prob_cdf = <<>> /\ probs = <<>> /\ BlockIdle
  /\ LebIdle /\ ObuIdle /\ AvifIdle

TileKeep ==
  UNCHANGED <<lebVars, obuVars, avifVars, frameVars, add_trailing_one_bit,
              tx_block, q_steps, prob_cdf, probs, blockVars>>

TileNew ==
  /\ pc = "tile_new"
  /\ \E q \in TileQIndexes :
       /\ encoder' = AV1Encoder_new(y4m.width, y4m.height, q)
       /\ pc' = IF encoder' = Panicked THEN "panic" ELSE "tile_image"
  /\ UNCHANGED tileVars
  /\ TileKeep

\* encode_image up to tile.encode(), and encode()'s loop over superblocks
EncodeImage ==
  /\ pc = "tile_image"
  /\ LET mi_rows == encoder.y_height \div 4
         mi_cols == encoder.y_width \div 4
         sb_rows == (mi_rows + 15) \div 16
         sb_cols == (mi_cols + 15) \div 16
     IN /\ mode_info' = Array2D_zeroed_of(mi_rows, mi_cols, ModeInfo_zeroed)
        /\ frame' = Frame_new(encoder.y_crop_width, encoder.y_crop_height)
        /\ calls' = [k \in 1..(sb_rows * sb_cols) |->
                       << ((k - 1) \div sb_cols) * 16,
                          ((k - 1) % sb_cols) * 16, 64 >>]
  /\ bitstream' = EntropyWriter_new
  /\ visited' = <<>>
  /\ pc' = "tile_encode"
  /\ UNCHANGED encoder
  /\ TileKeep

\* encode_partition for a block that is split further
EncodePartitionSplit ==
  /\ pc = "tile_encode" /\ calls # <<>> /\ Head(calls)[3] # 8
  /\ LET call == Head(calls)
         res == encode_partition(mode_info, call[1], call[2], call[3])
     IN IF res.status = "ok"
          THEN /\ bitstream' = bitstream \o res.out
               /\ calls' = res.calls \o Tail(calls)
               /\ pc' = pc
          ELSE pc' = "panic" /\ UNCHANGED <<bitstream, calls>>
  /\ UNCHANGED <<encoder, mode_info, frame, visited>>
  /\ TileKeep

\* encode_partition for an 8x8 block: PARTITION_NONE, then encode_block
EncodePartitionNone ==
  /\ pc = "tile_encode" /\ calls # <<>> /\ Head(calls)[3] = 8
  /\ LET call == Head(calls)
         res == encode_block(mode_info, encoder.qindex, call[1], call[2],
                             call[3])
     IN /\ bitstream' = bitstream
                          \o << write_symbol(0, <<19132, 25510, 30392>>) >>
                          \o res.out
        /\ visited' = IF res.status = "ok"
                         THEN Append(visited, <<call[1], call[2]>>)
                         ELSE visited
        /\ mode_info' = res.mode_info
        /\ IF res.status = "ok"
             THEN calls' = Tail(calls) /\ pc' = pc
             ELSE calls' = calls /\ pc' = "panic"
  /\ UNCHANGED <<encoder, frame>>
  /\ TileKeep

\* encode() returns; the bytes of bitstream.finalize() are not modelled
EncodeDone ==
  /\ pc = "tile_encode" /\ calls = <<>>
  /\ pc' = "tile_done"
  /\ UNCHANGED tileVars
  /\ UNCHANGED encoder
  /\ TileKeep

NextTile ==
  \/ TileNew
  \/ EncodeImage
  \/ EncodePartitionSplit
  \/ EncodePartitionNone
  \/ EncodeDone

SpecTile == InitTile /\ [][NextTile]_vars

---------------------------------------------------------------------------
(* C7: the ModeInfo grid during and after tile encoding *)

TileRunning == pc \in {"tile_encode", "tile_done", "panic"}

\* the blocks encode_block has finished, as <<mi_row, mi_col>>
BlocksDone == {visited[k] : k \in 1..Len(visited)}

\* the sum of |coefficient| over a transform block, row by row
SumAbs(coeffs) ==
  LET rowsum[i \in 0..coeffs.rows, j \in 0..coeffs.cols] ==
        IF j = 0 THEN 0 ELSE rowsum[i, j - 1] + abs(coeffs.data[i][j])
      total[i \in 0..coeffs.rows] ==
        IF i = 0 THEN 0 ELSE total[i - 1] + rowsum[i, coeffs.cols]
  IN total[coeffs.rows]

\* the block that wrote cell (r, c), rows and columns counted from 1
BlockOf(r, c) == <<2 * ((r - 1) \div 2), 2 * ((c - 1) \div 2)>>

\* 8x8 luma blocks beyond the ones encode_block codes: a large negative DC,
\* mixed signs, coefficients summing to exactly 63 and to 64
CoeffBlock(dc, a10, a77) ==
  [rows |-> 8, cols |-> 8,
   data |-> [i \in 1..8 |-> [j \in 1..8 |->
              IF i = 1 /\ j = 1 THEN dc
              ELSE IF i = 2 /\ j = 1 THEN a10
              ELSE IF i = 8 /\ j = 8 THEN a77
              ELSE 0]]]

CoeffSamples ==
  {CoeffBlock(-70, 0, 0), CoeffBlock(5, -3, 2), CoeffBlock(0, 0, 4),
   CoeffBlock(60, -2, 1), CoeffBlock(-60, 3, 1)}

\* C7: during and after tile encoding every cell of the ModeInfo grid has
\* dc_sign in {-1, 0, 1} and level_ctx in 0..63 for each plane; a cell of a
\* finished block holds min(sum of |coefficient|, 63) and the sign of the DC
\* coefficient of the block that wrote it (0 for the all-zero chroma planes),
\* every other cell is still zeroed; and encode_coeffs stores the same two
\* values for any luma block it is handed.
C7_ModeInfo ==
  TileRunning =>
    /\ \A r \in 1..mode_info.rows, c \in 1..mode_info.cols :
         LET cell == mode_info.data[r][c]
             coeffs == encode_block_y_coeffs(BlockOf(r, c)[1], BlockOf(r, c)[2])
         IN /\ \A p \in 1..3 : /\ cell.dc_sign[p] \in {-1, 0, 1}
                               /\ cell.level_ctx[p] \in 0..63
            /\ IF BlockOf(r, c) \in BlocksDone
                 THEN /\ cell.level_ctx = <<Min(SumAbs(coeffs), 63), 0, 0>>
                      /\ cell.dc_sign = <<signum(coeffs.data[1][1]), 0, 0>>
                 ELSE cell = ModeInfo_zeroed
    /\ pc = "tile_done" =>
         \A coeffs \in CoeffSamples :
           LET res == encode_coeffs(mode_info, encoder.qindex, 0, 0, 0, 8,
                                    ModeInfo_zeroed, coeffs)
           IN /\ res.status = "ok"
              /\ res.this_mi.level_ctx = <<Min(SumAbs(coeffs), 63), 0, 0>>
              /\ res.this_mi.dc_sign = <<signum(coeffs.data[1][1]), 0, 0>>

\* a 2x2-superblock image is fully coded: the first and the last cell hold
\* level 1, and a sample block's level is capped at 63
C7_Witness ==
  /\ pc = "tile_done"
  /\ mode_info.rows = 16 /\ mode_info.cols = 18
  /\ Len(visited) = 72
  /\ mode_info.data[1][1].level_ctx = <<1, 0, 0>>
  /\ mode_info.data[16][18].level_ctx = <<1, 0, 0>>
  /\ \E coeffs \in CoeffSamples : SumAbs(coeffs) > 63

---------------------------------------------------------------------------
(* C10: the quantizer indexes tile encoding accepts *)

\* the context the note in encode_coeffs derives from qindex
qctx(qindex) ==
  IF qindex <= 20 THEN 0
  ELSE IF qindex <= 60 THEN 1
  ELSE IF qindex <= 120 THEN 2
  ELSE 3

\* the context the probabilities written in encode_coeffs belong to
encode_coeffs_qctx == 3

EncoderBuilt == encoder \notin {NoEncoder, Panicked}

\* C10: for every qindex in 1..=255 tile encoding does not abort, and the
\* blocks it codes are coded in the context qctx(qindex).
C10_QIndexAccepted ==
  (EncoderBuilt /\ encoder.qindex \in 1..255) =>
    /\ pc # "panic"
    /\ visited # <<>> => encode_coeffs_qctx = qctx(encoder.qindex)

---------------------------------------------------------------------------
(* C8: the shape of the frames the Y4M reader and encode_image build *)

RoundUp8(n) == ((n + 7) \div 8) * 8
CeilHalf(n) == (n + 1) \div 2

\* f is shaped as a frame for an image of crop size W x H
FrameShapeOK(f, W, H) ==
  /\ f[1].pixels.rows = RoundUp8(H) /\ f[1].pixels.cols = RoundUp8(W)
  /\ f[1].crop_width = W /\ f[1].crop_height = H
  /\ \A k \in {2, 3} :
       /\ f[k].pixels.rows = RoundUp8(H) \div 2
       /\ f[k].pixels.cols = RoundUp8(W) \div 2
       /\ f[k].crop_width = CeilHalf(W) /\ f[k].crop_height = CeilHalf(H)
  /\ \A k \in 1..3 :
       /\ f[k].crop_width <= f[k].pixels.cols
       /\ f[k].crop_height <= f[k].pixels.rows

\* C8: the frame read by the Y4M reader and the recon frame of encode_image
\* have a Y buffer of the crop size rounded up to multiples of 8, U/V buffers
\* of half that, crops of W x H and ceil(W/2) x ceil(H/2) that fit the
\* buffers, and the recon Y buffer is y_height x y_width.
C8_FrameShape ==
  /\ (pc \in {"tile_new", "tile_image", "tile_encode", "tile_done"}
        /\ y4m_frame # <<>>)
       => FrameShapeOK(y4m_frame, y4m.width, y4m.height)
  /\ (pc \in {"tile_encode", "tile_done"} /\ frame # <<>>)
       => /\ FrameShapeOK(frame, encoder.y_crop_width, encoder.y_crop_height)
          /\ frame[1].pixels.rows = encoder.y_height
          /\ frame[1].pixels.cols = encoder.y_width

---------------------------------------------------------------------------
(* C6: the reconstruction encode_image leaves *)

\* quantizer steps tried for <<dc_q, ac_q>>; the tables from qindex to the
\* steps are not in the sources at hand
QSteps == {4, 100, 1828}

\* the luma block at mi position b of the recon frame is the prediction plus
\* the coded residual of the source block, for the steps dc_q and ac_q
ReconBlockOK(b, dc_q, ac_q) ==
  LET y0 == 4 * b[1]
      x0 == 4 * b[2]
      recon == frame[1].pixels
      pred == dc_predict(recon, y0, x0, 8, 8)
      coeffs == quantize(compute_residual(y4m_frame[1].pixels, pred, y0, x0,
                                          8, 8), dc_q, ac_q)
      block == apply_residual(pred, dequantize(coeffs, dc_q, ac_q), 8, 8)
  IN /\ y0 + 8 <= recon.rows /\ x0 + 8 <= recon.cols
     /\ \A i \in 1..8, j \in 1..8 : recon.data[y0 + i][x0 + j] = block[i][j]

\* C6: after encode_image every 8x8 luma block of the recon frame equals
\* clamp(pred + idct(dequant(quant(fdct(source - pred)))), 0, 255), pred
\* being the DC prediction from the recon frame and source the input frame.
C6_Recon ==
  pc = "tile_done" =>
    \E dc_q \in QSteps, ac_q \in QSteps :
      \A b \in BlocksDone : ReconBlockOK(b, dc_q, ac_q)

---------------------------------------------------------------------------
(* C11: what AV1Encoder::new accepts and what it derives *)

NewInputOK(w, h, q) == w \in 1..65536 /\ h \in 1..65536 /\ q # 0

\* e is the encoder the claim describes for the crop size w x h and qindex q
NewEncoderOK(e, w, h, q) ==
  /\ e \notin {NoEncoder, Panicked}
  /\ e.y_crop_width = w /\ e.y_crop_height = h /\ e.qindex = q
  /\ e.y_width % 8 = 0 /\ e.y_width - w \in 0..7
  /\ e.y_height % 8 = 0 /\ e.y_height - h \in 0..7
  /\ e.uv_width * 2 = e.y_width /\ e.uv_height * 2 = e.y_height
  /\ e.uv_crop_width = CeilHalf(w) /\ e.uv_crop_width <= e.uv_width
  /\ e.uv_crop_height = CeilHalf(h) /\ e.uv_crop_height <= e.uv_height

\* C11: AV1Encoder::new panics and yields no encoder exactly when the crop
\* width or height is outside 1..=65536 or qindex is 0; otherwise it returns
\* an encoder with the padded luma size the crop size rounded up to a
\* multiple of 8, the chroma size half of that, and the chroma crop
\* ceil(crop / 2), which fits the chroma size.
C11_New ==
  [][(pc = "hdr_new" /\ pc' \in {"hdr_seq", "panic"}) =>
       \A w \in CropWidths, h \in CropHeights, q \in QIndexes :
         encoder' = AV1Encoder_new(w, h, q) =>
           IF NewInputOK(w, h, q)
             THEN NewEncoderOK(encoder', w, h, q) /\ pc' = "hdr_seq"
             ELSE encoder' = Panicked /\ pc' = "panic"]_vars

\* an encoder for an odd crop size: 65 x 21 is padded to 72 x 24
C11_Witness ==
  /\ pc = "hdr_seq"
  /\ encoder.y_crop_width = 65 /\ encoder.y_width = 72
  /\ encoder.uv_crop_width = 33 /\ encoder.uv_width = 36
  /\ encoder.y_crop_height = 21 /\ encoder.y_height = 24
  /\ encoder.uv_crop_height = 11 /\ encoder.uv_height = 12

---------------------------------------------------------------------------
(* The EntropyWriter as a coder.  entropycode.rs is not among the sources at
   hand: the operations below follow the specification's description (state
   low, range starting at 0x8000, carry counter cnt starting at -9, a byte
   buffer; EC_PROB_SHIFT = 6 and EC_MIN_PROB = 4) and the AV1 symbol coder
   it names.  buf holds the values shifted out of low, each still carrying a
   possible carry into the value before it. *)

EntropyCoder_new == [low |-> 0, rng |-> 32768, cnt |-> -9, buf |-> <<>>]

\* A slip: the second of two values shifted out is taken before the first is
\* masked away
EntropyCoder_normalize_NoMask(e, low, rng) ==
  LET c == e.cnt + 16
      d == 15 - ilog2(rng)
      s == e.cnt + d
  IN IF s >= 8
       THEN [low |-> (low % Pow2(c - 8)) * Pow2(d), rng |-> rng * Pow2(d),
             cnt |-> c - 8 + d - 24,
             buf |-> e.buf \o <<low \div Pow2(c), low \div Pow2(c - 8)>>]
     ELSE IF s >= 0
       THEN [low |-> (low % Pow2(c)) * Pow2(d), rng |-> rng * Pow2(d),
             cnt |-> c + d - 24, buf |-> Append(e.buf, low \div Pow2(c))]
     ELSE [low |-> low * Pow2(d), rng |-> rng * Pow2(d), cnt |-> s,
           buf |-> e.buf]

\* renormalisation: range is shifted back to 16 bits, and the bits of low
\* above the window go to the buffer, one or two values at a time
EntropyCoder_normalize(e, low, rng) ==
  LET c == e.cnt + 16
      d == 15 - ilog2(rng)
      s == e.cnt + d
  IN IF s >= 8
       THEN [low |-> (low % Pow2(c - 8)) * Pow2(d), rng |-> rng * Pow2(d),
             cnt |-> c - 8 + d - 24,
             buf |-> e.buf \o <<low \div Pow2(c),
                                (low % Pow2(c)) \div Pow2(c - 8)>>]
     ELSE IF s >= 0
       THEN [low |-> (low % Pow2(c)) * Pow2(d), rng |-> rng * Pow2(d),
             cnt |-> c + d - 24, buf |-> Append(e.buf, low \div Pow2(c))]
     ELSE [low |-> low * Pow2(d), rng |-> rng * Pow2(d), cnt |-> s,
           buf |-> e.buf]

\* the part of range above the symbols from s on, for an N+1-ary alphabet;
\* cdf[s + 1] is the stored entry of symbol s
EntropyCoder_split(rng, cdf, s) ==
  LET N == Len(cdf)
      inv == IF s = N THEN 0 ELSE 32768 - cdf[s + 1]
  IN (((rng \div 256) * (inv \div 64)) \div 2) + 4 * (N - s)

EntropyCoder_write_symbol(e, symbol, cdf) ==
  LET u == EntropyCoder_split(e.rng, cdf, symbol - 1)
      v == EntropyCoder_split(e.rng, cdf, symbol)
  IN IF symbol > 0
       THEN EntropyCoder_normalize(e, e.low + (e.rng - u), u - v)
       ELSE EntropyCoder_normalize(e, e.low, e.rng - v)

EntropyCoder_write_bit(e, bit, p) == EntropyCoder_write_symbol(e, bit, <<p>>)

EntropyCoder_write_bool(e, value, p) ==
  EntropyCoder_write_bit(e, IF value THEN 1 ELSE 0, p)

\* n bits of value, most significant first, each an even-odds bool
EntropyCoder_write_literal(e, value, n) ==
  LET st[i \in 0..n] ==
        IF i = 0 THEN e
        ELSE Bind(st[i - 1], LAMBDA p :
               EntropyCoder_write_bit(p, (value \div Pow2(n - i)) % 2, 16384))
  IN st[n]

EntropyCoder_write_golomb(e, value) ==
  LET length == ilog2(value + 1) + 1
  IN Bind(EntropyCoder_write_literal(e, 0, length - 1), LAMBDA p :
       EntropyCoder_write_literal(p, value + 1, length))

\* finalize: the remaining bits of low are rounded up and shifted out, then
\* the carries are taken into the bytes before them
EntropyCoder_finalize(e) ==
  LET m == 16383
      up == ((e.low + m) \div 16384) * 16384
      end == IF (up \div 16384) % 2 = 1 THEN up ELSE up + 16384
      s == 10 + e.cnt
      c == e.cnt + 16
      tail == IF s > 8
                THEN <<end \div Pow2(c), (end % Pow2(c)) \div Pow2(c - 8)>>
              ELSE IF s > 0 THEN <<end \div Pow2(c)>>
              ELSE <<>>
      buf == e.buf \o tail
      n == Len(buf)
      tot[i \in 1..n] ==
        buf[i] + (IF i = n THEN 0 ELSE tot[i + 1] \div 256)
  IN [i \in 1..n |-> tot[i] % 256]

\* one logged call applied to the coder
EntropyCoder_apply(e, call) ==
  IF call[1] = "symbol" THEN EntropyCoder_write_symbol(e, call[2], call[3])
  ELSE IF call[1] = "bool" THEN EntropyCoder_write_bool(e, call[2], call[3])
  ELSE IF call[1] = "bit" THEN EntropyCoder_write_bit(e, call[2], call[3])
  ELSE IF call[1] = "literal"
    THEN EntropyCoder_write_literal(e, call[2], call[3])
  ELSE EntropyCoder_write_golomb(e, call[2])

(* The symbol decoder of the AV1 specification (init_symbol, read_symbol
   without adaptation, read_bool, read_literal, the Golomb reader), on the
   bytes data; pos counts the bits taken from data *)

SymbolDecoder_init(data) ==
  LET sz == Len(data)
      numBits == Min(sz * 8, 15)
      padded == BitsValue(data, 0, numBits) * Pow2(15 - numBits)
  IN [value |-> 32767 - padded, rng |-> 32768, maxBits |-> 8 * sz - 15,
      pos |-> numBits]

\* the decoder after one symbol, with the symbol in field symbol
SymbolDecoder_read_symbol(data, d, cdf) ==
  LET N == Len(cdf)
      cur(s) == EntropyCoder_split(d.rng, cdf, s)
      symbol == CHOOSE s \in 0..N :
                  /\ d.value >= cur(s)
                  /\ \A t \in 0..(s - 1) : d.value < cur(t)
      prev == IF symbol = 0 THEN d.rng ELSE cur(symbol - 1)
      rng == prev - cur(symbol)
      value == d.value - cur(symbol)
      bits == 15 - ilog2(rng)
      numBits == Min(bits, Max(0, d.maxBits))
      padded == BitsValue(data, d.pos, numBits) * Pow2(bits - numBits)
  IN [value |-> value * Pow2(bits) + ((Pow2(bits) - 1) - padded),
      rng |-> rng * Pow2(bits), maxBits |-> d.maxBits - bits,
      pos |-> d.pos + numBits, symbol |-> symbol]

RECURSIVE SymbolDecoder_read_literal(_, _, _, _)
\* n further bits appended to the value x so far
SymbolDecoder_read_literal(data, d, n, x) ==
  IF n = 0 THEN [d EXCEPT !.symbol = x]
  ELSE LET bit == SymbolDecoder_read_symbol(data, d, <<16384>>)
       IN SymbolDecoder_read_literal(data, bit, n - 1, 2 * x + bit.symbol)

RECURSIVE SymbolDecoder_read_golomb(_, _, _)
\* zeros counts the zero bits read so far; 32 of them are a bitstream error
SymbolDecoder_read_golomb(data, d, zeros) ==
  LET bit == SymbolDecoder_read_symbol(data, d, <<16384>>)
      rest == SymbolDecoder_read_literal(data, bit, zeros, 1)
  IN IF bit.symbol = 1 THEN [rest EXCEPT !.symbol = rest.symbol - 1]
     ELSE IF zeros = 32 THEN [bit EXCEPT !.symbol = -1]
     ELSE SymbolDecoder_read_golomb(data, bit, zeros + 1)

\* the value read for a call of the same kind and with the same CDF, width
\* or probability as the logged call
SymbolDecoder_read(data, d, call) ==
  IF call[1] = "symbol" THEN SymbolDecoder_read_symbol(data, d, call[3])
  ELSE IF call[1] \in {"bool", "bit"}
    THEN SymbolDecoder_read_symbol(data, d, <<call[3]>>)
  ELSE IF call[1] = "literal"
    THEN SymbolDecoder_read_literal(data, [d EXCEPT !.symbol = 0], call[3], 0)
  ELSE SymbolDecoder_read_golomb(data, d, 0)

\* the values decoded from data for the calls of log, in order
SymbolDecoder_read_all(data, log) ==
  LET st[i \in 0..Len(log)] ==
        IF i = 0 THEN [SymbolDecoder_init(data) EXCEPT !.symbol = 0]
        ELSE SymbolDecoder_read(data, st[i - 1], log[i])
  IN [i \in 1..Len(log) |-> st[i].symbol]

\* the value a logged call wrote
WrittenValue(call) ==
  IF call[1] = "bool" THEN (IF call[2] THEN 1 ELSE 0) ELSE call[2]

---------------------------------------------------------------------------
(* SpecEntropy: up to MaxEcCalls calls on a fresh EntropyWriter, then
   finalize.  bitstream is the coder, calls the log of the calls made,
   tile_data the finalized bytes. *)

MaxEcCalls == 4

EcCdf5 == <<6554, 13107, 19661, 26214>>
\* a CDF whose last symbol has the smallest probability there is
EcSkewed == <<32000, 32764>>

EcCalls ==
  {write_symbol(0, EcCdf5), write_symbol(2, EcCdf5),
   write_symbol(2, EcSkewed),
   write_bool(TRUE, 31903), write_bool(FALSE, 2713),
   write_literal(5, 3), write_golomb(6)}

InitEntropy ==
  /\ pc = "ec_write"
  /\ bitstream = EntropyCoder_new /\ calls = <<>>
  /\ mode_info = Array2D_zeroed(0, 0) /\ frame = <<>> /\ visited = <<>>
  /\ tx_block = Array2D_zeroed(0, 0) /\ q_steps = <<>>
  /\ prob_cdf = <<>> /\ probs = <<>> /\ BlockIdle
  /\ LebIdle /\ ObuIdle /\ EncIdle /\ AvifIdle /\ FrameIdle

EntropyKeep ==
  UNCHANGED <<lebVars, encVars, avifVars, frameVars, mode_info, frame,
              visited, tx_block, q_steps, prob_cdf, probs, blockVars,
              sequence_header,
              frame_header,
              include_temporal_delimiter, av1_data>>

EcWrite ==
  /\ pc = "ec_write" /\ Len(calls) < MaxEcCalls
  /\ \E call \in EcCalls :
       /\ bitstream' = EntropyCoder_apply(bitstream, call)
       /\ calls' = Append(calls, call)
  /\ UNCHANGED <<pc, tile_data>>
  /\ EntropyKeep

EcFinalize ==
  /\ pc = "ec_write"
  /\ tile_data' = EntropyCoder_finalize(bitstream)
  /\ pc' = "ec_done"
  /\ UNCHANGED <<bitstream, calls>>
  /\ EntropyKeep

NextEntropy == EcWrite \/ EcFinalize

SpecEntropy == InitEntropy /\ [][NextEntropy]_vars

\* C12: the bytes finalize returns, decoded by the AV1 symbol decoder with
\* the same CDFs in the same order, give exactly the written values in
\* order (symbols, bools, literals and Golomb values).
C12_EntropyRoundTrip ==
  pc = "ec_done" =>
    SymbolDecoder_read_all(tile_data, calls)
      = [i \in 1..Len(calls) |-> WrittenValue(calls[i])]

\* a run in which a carry went back into a byte already shifted out, and
\* which ends in several bytes
C12_Witness ==
  /\ pc = "ec_done"
  /\ Len(calls) = 3
  /\ \E i \in 1..Len(bitstream.buf) : bitstream.buf[i] > 255
  /\ Len(tile_data) >= 3
  /\ \E i \in 1..3 : calls[i][1] = "golomb"

---------------------------------------------------------------------------
(* recon.rs: quantize, dequantize and quantize again on one 8x8 transform
   block.  The step sizes come from qindex_to_dc_q and qindex_to_ac_q; the
   pairs below span their range (4 up to 1336 and 1828) with even and odd
   steps. *)

QuantSteps == {<<4, 4>>, <<5, 7>>, <<8, 9>>, <<37, 50>>, <<1336, 1828>>}

\* coefficients: zero, values below, at and above half a step of the
\* step sizes above, of both signs, up to the largest magnitude an 8x8
\* transform of 8-bit residuals gives
CoeffValues ==
  <<0, 1, -1, 2, -2, 3, -3, 4, -4, 6, -6, 10, -10, 18, -19, 25, -25, 26,
    668, -668, 669, 914, -914, 915, 2004, -2742, 16320, -16320>>

\* the block whose entries run through CoeffValues from offset on
CoeffPattern(offset) ==
  [rows |-> 8, cols |-> 8,
   data |-> [i \in 1..8 |-> [j \in 1..8 |->
     CoeffValues[((8 * (i - 1) + (j - 1) + offset) % Len(CoeffValues)) + 1]]]]

InitQuant ==
  /\ pc = "q_start"
  /\ \E offset \in 0..(Len(CoeffValues) - 1) :
       tx_block = CoeffPattern(offset)
  /\ q_steps \in QuantSteps
  /\ mode_info = Array2D_zeroed(0, 0) /\ frame = <<>>
  /\ bitstream = <<>> /\ calls = <<>> /\ visited = <<>>
  /\ prob_cdf = <<>> /\ probs = <<>> /\ BlockIdle
  /\ LebIdle /\ ObuIdle /\ EncIdle /\ AvifIdle /\ FrameIdle

QuantKeep ==
  UNCHANGED <<lebVars, obuVars, encVars, avifVars, frameVars, mode_info,
              frame, bitstream, calls, visited, q_steps, prob_cdf, probs,
              blockVars>>

Quantize ==
  /\ pc \in {"q_start", "q_dequantized"}
  /\ tx_block' = quantize(tx_block, q_steps[1], q_steps[2])
  /\ pc' = IF pc = "q_start" THEN "q_quantized" ELSE "q_requantized"
  /\ QuantKeep

Dequantize ==
  /\ pc = "q_quantized"
  /\ tx_block' = dequantize(tx_block, q_steps[1], q_steps[2])
  /\ pc' = "q_dequantized"
  /\ QuantKeep

NextQuant == Quantize \/ Dequantize

SpecQuant == InitQuant /\ [][NextQuant]_vars

\* the step size used at row i, column j (1-based)
QStepAt(i, j) == IF i = 1 /\ j = 1 THEN q_steps[1] ELSE q_steps[2]

\* k is c / q rounded to the nearest integer, an exact half toward zero
NearestHalfTowardZero(c, q, k) ==
  /\ 2 * abs(c - k * q) <= q
  /\ 2 * abs(c - k * q) = q => abs(k) * q < abs(c)
  /\ k # 0 => signum(k) = signum(c)

Negated(block) ==
  [block EXCEPT !.data =
     [i \in 1..block.rows |-> [j \in 1..block.cols |-> 0 - block.data[i][j]]]]

\* C13: quantize gives sign(c) * ((|c| + (q-1)/2) / q) at every position,
\* with dc_q at (0,0) and ac_q elsewhere: the nearest multiple, an exact
\* half toward zero, and quantize(-c) = -quantize(c); dequantize scales by
\* q; and quantizing the dequantized block gives the quantized block back.
C13_Quantize ==
  [][/\ (pc = "q_start" /\ pc' = "q_quantized") =>
          /\ \A i \in 1..8, j \in 1..8 :
               LET c == tx_block.data[i][j]
                   q == QStepAt(i, j)
               IN /\ tx_block'.data[i][j]
                       = signum(c) * ((abs(c) + (q - 1) \div 2) \div q)
                  /\ NearestHalfTowardZero(c, q, tx_block'.data[i][j])
          /\ quantize(Negated(tx_block), q_steps[1], q_steps[2])
               = Negated(tx_block')
     /\ (pc = "q_quantized" /\ pc' = "q_dequantized") =>
          \A i \in 1..8, j \in 1..8 :
            tx_block'.data[i][j] = tx_block.data[i][j] * QStepAt(i, j)
     /\ (pc = "q_dequantized" /\ pc' = "q_requantized") =>
          \A i \in 1..8, j \in 1..8 :
            tx_block'.data[i][j] * QStepAt(i, j) = tx_block.data[i][j]
    ]_vars

\* a requantized block from coefficients 4, -4, 6, -6, ... with steps 8
\* and 9: the DC coefficient was an exact half of its step and became 0,
\* -6 became -1, and 16320 became 1813
C13_Witness ==
  /\ pc = "q_requantized"
  /\ q_steps = <<8, 9>>
  /\ tx_block.data[1][1] = 0 /\ tx_block.data[1][2] = 0
  /\ tx_block.data[1][3] = 1 /\ tx_block.data[1][4] = -1
  /\ \E i \in 1..8, j \in 1..8 : tx_block.data[i][j] = 1813

---------------------------------------------------------------------------
(* util.rs: get_prob called for symbols 0, 1, 2, ... of one CDF *)

MaxCdfLen == 3
ProbValues == {0, 1, 8192, 32767, 32768}

\* the nondecreasing sequences of up to MaxCdfLen stored entries
Cdfs ==
  {c \in UNION {[1..n -> ProbValues] : n \in 0..MaxCdfLen} :
     \A i \in 1..(Len(c) - 1) : c[i] <= c[i + 1]}

\* N of a CDF: its stored entries and the implicit terminal one
NSymbols(cdf) == Len(cdf) + 1

RECURSIVE SeqSum(_)
SeqSum(seq) == IF seq = <<>> THEN 0 ELSE Head(seq) + SeqSum(Tail(seq))

InitProb ==
  /\ pc = "prob"
  /\ prob_cdf \in Cdfs /\ probs = <<>> /\ BlockIdle
  /\ mode_info = Array2D_zeroed(0, 0) /\ frame = <<>>
  /\ bitstream = <<>> /\ calls = <<>> /\ visited = <<>>
  /\ tx_block = Array2D_zeroed(0, 0) /\ q_steps = <<>>
  /\ LebIdle /\ ObuIdle /\ EncIdle /\ AvifIdle /\ FrameIdle

ProbKeep ==
  UNCHANGED <<lebVars, obuVars, encVars, avifVars, frameVars, mode_info,
              frame, bitstream, calls, visited, tx_block, q_steps, prob_cdf,
              blockVars>>

\* get_prob(symbol, prob_cdf) for the next symbol, up to symbol N
GetProb ==
  /\ pc = "prob" /\ Len(probs) <= NSymbols(prob_cdf)
  /\ LET symbol == Len(probs)
     IN IF get_prob_panics(symbol, prob_cdf)
        THEN pc' = "panic" /\ UNCHANGED probs
        ELSE pc' = pc /\ probs' = Append(probs, get_prob(symbol, prob_cdf))
  /\ ProbKeep

NextProb == GetProb

SpecProb == InitProb /\ [][NextProb]_vars

\* C14 as stated, for the CDFs with at least one stored entry:
\* get_prob(s, cdf) is defined and non-negative for every s in 0..N, and
\* the N + 1 values sum to 32768.
C14_GetProbUpToN ==
  Len(prob_cdf) >= 1 =>
    /\ pc # "panic"
    /\ \A i \in 1..Len(probs) : probs[i] >= 0
    /\ Len(probs) = NSymbols(prob_cdf) + 1 => SeqSum(probs) = 32768

\* C14 amended: for a CDF with at least one stored entry, get_prob(s, cdf)
\* is defined and non-negative for every s in 0..N-1, and these N values
\* sum to 32768.
C14_GetProb ==
  [][(Len(prob_cdf) >= 1 /\ Len(probs) < NSymbols(prob_cdf)) =>
       /\ pc' = "prob"
       /\ Len(probs') = Len(probs) + 1
       /\ probs'[Len(probs')] >= 0
       /\ probs'[Len(probs')] = get_prob(Len(probs), prob_cdf)
       /\ Len(probs') = NSymbols(prob_cdf) => SeqSum(probs') = 32768]_vars

\* all four symbols of a three-entry CDF with a repeated entry and the
\* entry 32768: masses 1, 0, 32767 and 0
C14_Witness ==
  /\ pc = "prob"
  /\ prob_cdf = <<1, 1, 32768>>
  /\ probs = <<1, 0, 32767, 0>>

---------------------------------------------------------------------------
(* isobmff.rs: the writer under any sequence of calls the handles allow.
   An ISOBMFFBox holds the mutable reference to the writer (or to its
   parent box) for as long as it lives, so only the innermost open box can
   be written to, opened in, or dropped, and finalize needs every box
   dropped. *)

MaxBoxOps == 4
BoxTypes == {<<109, 101, 116, 97>>, <<109, 100, 97, 116>>}
BoxPayloads == {<<7>>, Repeat(171, 300)}

InitBox ==
  /\ pc = "box_run"
  /\ avif = <<>> /\ boxes = <<>> /\ closed_boxes = {}
  /\ ip = 0 /\ avif_out = <<>>
  /\ avif_args = <<>> /\ content_pos_marker = 0 /\ content_pos = 0
  /\ LebIdle /\ ObuIdle /\ EncIdle /\ FrameIdle /\ TileIdle

BoxKeep ==
  UNCHANGED <<lebVars, obuVars, encVars, frameVars, tileVars, avif_args,
              content_pos_marker, content_pos>>

\* the size_pos of the innermost open box, or -1 at the top level
BoxParent == IF boxes = <<>> THEN -1 ELSE boxes[Len(boxes)].size_pos

\* ISOBMFFWriter::open_box with no box open, ISOBMFFBox::open_box otherwise
BoxOpen ==
  /\ pc = "box_run" /\ ip < MaxBoxOps
  /\ \E typ \in BoxTypes :
       /\ avif' = ISOBMFF_open_box(avif, typ)
       /\ boxes' = Append(boxes, [size_pos |-> Len(avif), header |-> 8,
                                  parent |-> BoxParent])
  /\ ip' = ip + 1
  /\ UNCHANGED <<pc, closed_boxes, avif_out>> /\ BoxKeep

BoxOpenWithVersion ==
  /\ pc = "box_run" /\ ip < MaxBoxOps
  /\ \E typ \in {<<109, 101, 116, 97>>}, flags \in {16777215} :
       /\ typ \in BoxTypes /\ flags < 16777216
       /\ avif' = ISOBMFF_open_box_with_version(avif, typ, 0, flags)
       /\ boxes' = Append(boxes, [size_pos |-> Len(avif), header |-> 12,
                                  parent |-> BoxParent])
  /\ ip' = ip + 1
  /\ UNCHANGED <<pc, closed_boxes, avif_out>> /\ BoxKeep

BoxWriteBytes ==
  /\ pc = "box_run" /\ ip < MaxBoxOps
  /\ boxes # <<>>
  /\ \E value \in BoxPayloads : avif' = ISOBMFFBox_write_bytes(avif, value)
  /\ ip' = ip + 1
  /\ UNCHANGED <<pc, boxes, closed_boxes, avif_out>> /\ BoxKeep

BoxDrop ==
  /\ pc = "box_run"
  /\ boxes # <<>>
  /\ avif' = ISOBMFFBox_drop(avif, boxes[Len(boxes)].size_pos)
  /\ closed_boxes' = closed_boxes \cup
       {[size_pos |-> boxes[Len(boxes)].size_pos,
         header |-> boxes[Len(boxes)].header,
         parent |-> boxes[Len(boxes)].parent, end_pos |-> Len(avif)]}
  /\ boxes' = SubSeq(boxes, 1, Len(boxes) - 1)
  /\ UNCHANGED <<pc, ip, avif_out>> /\ BoxKeep

BoxFinalize ==
  /\ pc = "box_run" /\ boxes = <<>>
  /\ avif_out' = ISOBMFFWriter_finalize(avif)
  /\ pc' = "box_done"
  /\ UNCHANGED <<avif, boxes, closed_boxes, ip>> /\ BoxKeep

NextBox ==
  BoxOpen \/ BoxOpenWithVersion \/ BoxWriteBytes \/ BoxDrop \/ BoxFinalize

SpecBox == InitBox /\ [][NextBox]_vars

\* the position a reader reaches walking the size fields of the boxes laid
\* out from position from, or -1 if a size field is too small or runs past
\* the end
RECURSIVE WalkBoxes(_, _)
WalkBoxes(data, from) ==
  IF from = Len(data) THEN from
  ELSE IF from + 8 > Len(data) THEN -1
  ELSE IF U32At(data, from) < 8 THEN -1
  ELSE IF from + U32At(data, from) > Len(data) THEN -1
  ELSE WalkBoxes(data, from + U32At(data, from))

\* the step closes a box: its size field gets the bytes from its first
\* byte to the end of the data, nothing else changes, and the box closed is
\* the innermost one
BoxCloseOK ==
  Len(boxes') < Len(boxes) =>
    LET b == boxes[Len(boxes)]
    IN /\ boxes' = SubSeq(boxes, 1, Len(boxes) - 1)
       /\ Len(avif') = Len(avif)
       /\ U32At(avif', b.size_pos) = Len(avif) - b.size_pos
       /\ \A i \in 1..Len(avif) :
            (i <= b.size_pos \/ i > b.size_pos + 4) => avif'[i] = avif[i]

\* bytes are only appended while a box is open, so they fall inside every
\* open box; size fields of closed boxes are left alone
BoxWriteOK ==
  /\ Len(avif') >= Len(avif)
  /\ \A b \in closed_boxes :
       SubSeq(avif', b.size_pos + 1, b.size_pos + 4)
         = SubSeq(avif, b.size_pos + 1, b.size_pos + 4)
  /\ \A k \in 1..Len(boxes) : boxes[k].size_pos + boxes[k].header <= Len(avif)

BoxFileOK ==
  /\ \A b \in closed_boxes :
       /\ U32At(avif_out, b.size_pos) = b.end_pos - b.size_pos
       /\ b.parent >= 0 =>
            \E p \in closed_boxes :
              /\ p.size_pos = b.parent
              /\ p.size_pos + p.header <= b.size_pos
              /\ b.size_pos + U32At(avif_out, b.size_pos)
                   <= p.size_pos + U32At(avif_out, p.size_pos)
  /\ WalkBoxes(avif_out, 0) = Len(avif_out)

\* C15: a closing box gets, in the four big-endian bytes at its first
\* byte, the number of bytes from there to the end of the file; boxes
\* close innermost first; in the finalized file every child's range lies
\* inside its parent's and the top-level sizes add up to the file length.
C15_Boxes ==
  [][BoxCloseOK /\ BoxWriteOK /\ (pc' = "box_done" => BoxFileOK')]_vars

\* a finalized file of two top-level boxes, the first with a child that
\* holds 300 payload bytes (a size that needs two bytes)
C15_Witness ==
  /\ pc = "box_done"
  /\ \E b \in closed_boxes : b.parent = 0 /\ b.end_pos - b.size_pos >= 308
  /\ \E b \in closed_boxes : b.parent = -1 /\ b.size_pos > 0

---------------------------------------------------------------------------
(* encode_partition, step by step, under SpecTile *)

\* the step runs encode_partition for the first pending call
PartitionStep == pc = "tile_encode" /\ calls # <<>> /\ pc' = "tile_encode"

\* what the step appended to the log of EntropyWriter calls
Emitted == SubSeq(bitstream', Len(bitstream) + 1, Len(bitstream'))

\* the half of a block of size b at MI position pos that starts b/8 MI
\* units on is inside a grid of limit MI units
SecondHalfIn(pos, b, limit) == pos + b \div 8 < limit

\* the 10-ary partition CDFs of size b, one per context
PartitionCdfs(b) ==
  all_cdfs[IF b = 16 THEN 1 ELSE IF b = 32 THEN 2 ELSE 3]

\* the sub-quadrants of the block at (r, c) of size b whose first MI cell
\* is inside the grid
InBoundsQuadrants(r, c, b) ==
  {q \in {<<r, c, b \div 2>>, <<r, c + b \div 8, b \div 2>>,
          <<r + b \div 8, c, b \div 2>>,
          <<r + b \div 8, c + b \div 8, b \div 2>>} :
     q[1] < mode_info.rows /\ q[2] < mode_info.cols}

\* C16: what encode_partition emits at size 16, 32 or 64 depends only on
\* which halves are in bounds: PARTITION_SPLIT = 3 under a 10-ary CDF of
\* this size when both are, one binary symbol of value 1 (SPLIT) with the
\* HORZ-or-SPLIT probability when only the right half is, one with the
\* VERT-or-SPLIT probability when only the bottom half is, and nothing when
\* neither is; it then calls itself at half the size for exactly the
\* in-bounds sub-quadrants.  At size 8 it emits PARTITION_NONE = 0 under the
\* 8x8 CDF and encodes the block.
C16_Partition ==
  [][PartitionStep =>
       LET r == Head(calls)[1]
           c == Head(calls)[2]
           b == Head(calls)[3]
           rows2 == SecondHalfIn(r, b, mode_info.rows)
           cols2 == SecondHalfIn(c, b, mode_info.cols)
       IN IF b = 8
            THEN /\ Emitted[1] = <<"symbol", 0, <<19132, 25510, 30392>>>>
                 /\ visited' = Append(visited, <<r, c>>)
                 /\ calls' = Tail(calls)
            ELSE /\ b \in {16, 32, 64}
                 /\ rows2 /\ cols2 =>
                      \E cdf \in {PartitionCdfs(b)[k] : k \in 1..4} :
                        Len(cdf) = 9 /\ Emitted = << <<"symbol", 3, cdf>> >>
                 /\ ~rows2 /\ cols2 =>
                      \E cdf \in {PartitionCdfs(b)[k] : k \in 1..4} :
                        Emitted = << <<"bit", 1,
                          get_prob(0, cdf) + get_prob(1, cdf)
                            + get_prob(5, cdf) + get_prob(8, cdf)>> >>
                 /\ rows2 /\ ~cols2 =>
                      \E cdf \in {PartitionCdfs(b)[k] : k \in 1..4} :
                        Emitted = << <<"bit", 1,
                          get_prob(0, cdf) + get_prob(2, cdf)
                            + get_prob(7, cdf) + get_prob(9, cdf)>> >>
                 /\ ~rows2 /\ ~cols2 => Emitted = <<>>
                 /\ visited' = visited
                 /\ \E n \in 1..4 :
                      /\ Len(calls') = Len(calls) - 1 + n
                      /\ SubSeq(calls', n + 1, Len(calls')) = Tail(calls)
                      /\ {calls'[k] : k \in 1..n} = InBoundsQuadrants(r, c, b)
                      /\ Cardinality(InBoundsQuadrants(r, c, b)) = n]_vars

\* the root of the partial superblock at x = 64 of the 72x64 image has
\* just been coded with a binary symbol and its two left quadrants are
\* next; before it the full superblock was coded with PARTITION_SPLIT
C16_Witness ==
  /\ pc = "tile_encode" /\ y4m.width = 72 /\ y4m.height = 64
  /\ Len(calls) = 2
  /\ calls[1] = <<0, 16, 32>> /\ calls[2] = <<8, 16, 32>>
  /\ bitstream[Len(bitstream)][1] = "bit"
  /\ bitstream[1][1] = "symbol" /\ bitstream[1][2] = 3
  /\ Len(visited) = 64

\* the step appended what a block with these halves in bounds writes
\* under cdf
CodedWith(cdf, rows2, cols2) ==
  IF rows2 /\ cols2 THEN Emitted = << <<"symbol", 3, cdf>> >>
  ELSE IF cols2
    THEN Emitted = << <<"bit", 1, cdf[2] + (cdf[6] - cdf[5])
                                    + (cdf[9] - cdf[8])>> >>
  ELSE IF rows2
    THEN Emitted = << <<"bit", 1, cdf[1] + (cdf[3] - cdf[2])
                                    + (cdf[8] - cdf[7]) + (32768 - cdf[9])>> >>
  ELSE Emitted = <<>>

\* every partition step used, above size 8, the CDF of context ctx(r, c)
\* for its size, and at size 8 the 8x8 CDF of context 0
PartitionContextIs(ctx(_, _)) ==
  PartitionStep =>
    LET r == Head(calls)[1]
        c == Head(calls)[2]
        b == Head(calls)[3]
    IN IF b = 8
         THEN Emitted[1] = <<"symbol", 0, <<19132, 25510, 30392>>>>
         ELSE CodedWith(PartitionCdfs(b)[ctx(r, c) + 1],
                        SecondHalfIn(r, b, mode_info.rows),
                        SecondHalfIn(c, b, mode_info.cols))

\* C17 as stated: the context of a partition above size 8 at MI position
\* (r, c) is 2*(r>0) + (c>0), 1 on the top edge and 2 on the left edge; at
\* size 8 it is 0.
C17_ContextRowTwice ==
  [][PartitionContextIs(LAMBDA r, c : 2 * (IF r > 0 THEN 1 ELSE 0)
                                       + (IF c > 0 THEN 1 ELSE 0))]_vars

\* C17 amended: the context is 2*(c>0) + (r>0): 0 at the top-left corner,
\* 2 on the top edge (r = 0, c > 0), 1 on the left edge (r > 0, c = 0), 3
\* elsewhere; at size 8 it is 0.
C17_Context ==
  [][PartitionContextIs(LAMBDA r, c : 2 * (IF c > 0 THEN 1 ELSE 0)
                                       + (IF r > 0 THEN 1 ELSE 0))]_vars

\* the size-32 block at the top edge, MI column 8, of the 72x64 image has
\* just been coded with PARTITION_SPLIT under the 32x32 CDF of context 2
C17_Witness ==
  /\ pc = "tile_encode" /\ y4m.width = 72 /\ y4m.height = 64
  /\ Head(calls) = <<0, 8, 16>>
  /\ bitstream[Len(bitstream)] = <<"symbol", 3, all_cdfs[2][3]>>

\* the probability write_bit(bit, p) gives to outcome v: p is the
\* probability of outcome 0
BitProb(p, v) == get_prob(v, <<p>>)

\* the six partition types that split the block where a horizontal cut
\* alone would not do, and the six for a vertical cut
SplitOrHorzMass(cdf) ==
  get_prob(Partition.VERT, cdf) + get_prob(Partition.SPLIT, cdf)
    + get_prob(Partition.HORZ_A, cdf) + get_prob(Partition.VERT_A, cdf)
    + get_prob(Partition.VERT_B, cdf) + get_prob(Partition.VERT_4, cdf)
SplitOrVertMass(cdf) ==
  get_prob(Partition.HORZ, cdf) + get_prob(Partition.SPLIT, cdf)
    + get_prob(Partition.HORZ_A, cdf) + get_prob(Partition.HORZ_B, cdf)
    + get_prob(Partition.VERT_A, cdf) + get_prob(Partition.HORZ_4, cdf)

\* in the bottom-edge and right-edge cases the bit written is 1 and SPLIT
\* gets the probability split_prob(mass), mass being the sum of the six
\* get_prob values of the case under the CDF of the block's size and
\* context; for every size and context both outcomes are possible
DerivedSplitProbIs(split_prob(_)) ==
  /\ PartitionStep /\ Head(calls)[3] > 8 =>
       LET r == Head(calls)[1]
           c == Head(calls)[2]
           b == Head(calls)[3]
           rows2 == SecondHalfIn(r, b, mode_info.rows)
           cols2 == SecondHalfIn(c, b, mode_info.cols)
           cdf == PartitionCdfs(b)[encode_partition_ctx(r, c) + 1]
       IN /\ (~rows2 /\ cols2) =>
               /\ Len(Emitted) = 1 /\ Emitted[1][1] = "bit"
               /\ Emitted[1][2] = 1
               /\ BitProb(Emitted[1][3], 1) = split_prob(SplitOrHorzMass(cdf))
          /\ (rows2 /\ ~cols2) =>
               /\ Len(Emitted) = 1 /\ Emitted[1][1] = "bit"
               /\ Emitted[1][2] = 1
               /\ BitProb(Emitted[1][3], 1) = split_prob(SplitOrVertMass(cdf))
  /\ \A b \in {16, 32, 64}, k \in 1..4 :
       \A out \in {encode_partition_symbol(PartitionCdfs(b)[k], 1, 2)[1],
                   encode_partition_symbol(PartitionCdfs(b)[k], 2, 1)[1]} :
         /\ BitProb(out[3], 0) > 0 /\ BitProb(out[3], 0) < 32768
         /\ BitProb(out[3], 1) > 0 /\ BitProb(out[3], 1) < 32768

\* C18 as stated: SPLIT gets 32768 - (p(VERT) + p(SPLIT) + p(HORZ_A) +
\* p(VERT_A) + p(VERT_B) + p(VERT_4)) at the bottom edge, symmetrically at
\* the right edge, and both outcomes lie strictly between 0 and 32768.
C18_SplitComplement ==
  [][DerivedSplitProbIs(LAMBDA mass : 32768 - mass)]_vars

\* C18 amended: SPLIT gets the sum p(VERT) + p(SPLIT) + p(HORZ_A) +
\* p(VERT_A) + p(VERT_B) + p(VERT_4) itself at the bottom edge (HORZ,
\* SPLIT, HORZ_A, HORZ_B, VERT_A, HORZ_4 at the right edge); 32768 minus
\* the sum is the probability of the other outcome, which is what
\* write_bit is given; both lie strictly between 0 and 32768.
C18_SplitProb ==
  [][DerivedSplitProbIs(LAMBDA mass : mass)]_vars

\* the size-32 block of the 24x16 image, whose bottom half is outside the
\* frame, has just been coded: write_bit(1, 23108), SPLIT having 9660
C18_Witness ==
  /\ pc = "tile_encode" /\ y4m.width = 24 /\ y4m.height = 16
  /\ bitstream = << <<"bit", 1, 23108>> >>
  /\ BitProb(bitstream[1][3], 1) = 9660
  /\ Head(calls) = <<0, 0, 16>>

\* <<r1, c1>> comes before <<r2, c2>> in raster order
RasterBefore(a, b) == a[1] < b[1] \/ (a[1] = b[1] /\ a[2] < b[2])

\* the position of the 8x8 block at MI (r, c) in the order that takes the
\* superblocks in raster order and, inside a superblock, the top-left,
\* top-right, bottom-left and bottom-right quadrant of every size in turn
ZOrderKey(r, c) ==
  LET sb_cols == (mode_info.cols + 15) \div 16
      br == (r % 16) \div 2
      bc == (c % 16) \div 2
      bit(v, k) == (v \div Pow2(k)) % 2
  IN ((r \div 16) * sb_cols + c \div 16) * 64
       + 32 * bit(br, 2) + 16 * bit(bc, 2)
       + 8 * bit(br, 1) + 4 * bit(bc, 1)
       + 2 * bit(br, 0) + bit(bc, 0)

\* encode() lists the superblocks row by row, each at size 64
SuperblocksOK ==
  (pc = "tile_image" /\ pc' = "tile_encode") =>
    LET sb_rows == (encoder.y_height + 63) \div 64
        sb_cols == (encoder.y_width + 63) \div 64
    IN /\ Len(calls') = sb_rows * sb_cols
       /\ {<<calls'[k][1], calls'[k][2]>> : k \in 1..Len(calls')}
            = {<<16 * i, 16 * j>> : i \in 0..(sb_rows - 1),
                                     j \in 0..(sb_cols - 1)}
       /\ \A k \in 1..Len(calls') : calls'[k][3] = 64
       /\ \A k \in 1..(Len(calls') - 1) :
            RasterBefore(calls'[k], calls'[k + 1])

\* a partition above size 8 puts its sub-quadrants, in raster order, ahead
\* of everything that was pending: each is coded to the end before the next
QuadrantsOK ==
  (PartitionStep /\ Head(calls)[3] > 8) =>
    LET n == Len(calls') - Len(calls) + 1
    IN /\ n \in 1..4
       /\ SubSeq(calls', n + 1, Len(calls')) = Tail(calls)
       /\ \A k \in 1..(n - 1) : RasterBefore(calls'[k], calls'[k + 1])
       /\ \A k \in 1..n :
            /\ calls'[k][1] \in {Head(calls)[1],
                                 Head(calls)[1] + Head(calls)[3] \div 8}
            /\ calls'[k][2] \in {Head(calls)[2],
                                 Head(calls)[2] + Head(calls)[3] \div 8}

\* C19: the superblocks are entered in raster order at size 64,
\* ceil(padded height / 64) rows of ceil(padded width / 64); every
\* partition visits its in-bounds sub-quadrants in raster order, one
\* completely before the next; so encode_block is called in Z-order within
\* each superblock.
C19_Order ==
  [][/\ SuperblocksOK
     /\ QuadrantsOK
     /\ \A i \in 1..(Len(visited') - 1) :
          ZOrderKey(visited'[i][1], visited'[i][2])
            < ZOrderKey(visited'[i + 1][1], visited'[i + 1][2])]_vars

\* the finished 72x72 tile, two rows of two superblocks: the first
\* superblock's 64 blocks start (0,0), (0,2), (2,0), (2,2), then come the 8
\* blocks of the superblock to its right, then the second row
C19_Witness ==
  /\ pc = "tile_done" /\ y4m.width = 72 /\ y4m.height = 72
  /\ Len(visited) = 81
  /\ SubSeq(visited, 1, 5) = <<<<0, 0>>, <<0, 2>>, <<2, 0>>, <<2, 2>>, <<0, 4>>>>
  /\ visited[64] = <<14, 14>> /\ visited[65] = <<0, 16>>
  /\ visited[73] = <<16, 0>> /\ visited[81] = <<16, 16>>

\* the 8x8 blocks of the padded frame, by the MI position of their
\* top-left cell
GridBlocks ==
  {<<r, c>> \in (0..(mode_info.rows - 1)) \X (0..(mode_info.cols - 1)) :
     r % 2 = 0 /\ c % 2 = 0}

\* how many of the blocks given to encode_block cover MI cell (i, j)
TimesWritten(i, j) ==
  Cardinality({k \in 1..Len(visited) :
                 /\ visited[k][1] <= i /\ i < visited[k][1] + 2
                 /\ visited[k][2] <= j /\ j < visited[k][2] + 2})

\* C20: for every frame size encode comes to its end, having called
\* encode_block exactly once for each 8x8 block of the padded frame and for
\* no position outside the MI grid; no fill_region panics and every
\* ModeInfo cell is written exactly once.
C20_EveryBlockOnce ==
  (TileRunning /\ EncoderBuilt) =>
    /\ pc # "panic"
    /\ \A k \in 1..Len(visited) : visited[k] \in GridBlocks
    /\ \A k, l \in 1..Len(visited) : visited[k] = visited[l] => k = l
    /\ \A i \in 0..(mode_info.rows - 1), j \in 0..(mode_info.cols - 1) :
         TimesWritten(i, j) <= 1
    /\ pc = "tile_done" =>
         /\ {visited[k] : k \in 1..Len(visited)} = GridBlocks
         /\ \A i \in 0..(mode_info.rows - 1), j \in 0..(mode_info.cols - 1) :
              TimesWritten(i, j) = 1

---------------------------------------------------------------------------
(* av1_encoder.rs: tile encoding with encode_block taken statement by
   statement: the mode symbols, encode_coeffs for plane 0, 1 and 2, and the
   final fill_region.  block_mi is this_mi, block_plane the plane coded
   next; the block in hand is Head(calls). *)

BlockKeep ==
  UNCHANGED <<lebVars, obuVars, avifVars, frameVars, add_trailing_one_bit,
              tx_block, q_steps, prob_cdf, probs, pred_plane, pred_args,
              btf_args, btf_out, lookups, encoder, frame>>

\* encode_partition at size 8 writes PARTITION_NONE and enters encode_block,
\* which allocates this_mi and writes the three mode symbols
BlockBegin ==
  /\ pc = "tile_encode" /\ calls # <<>> /\ Head(calls)[3] = 8
  /\ bitstream' = bitstream
                    \o << write_symbol(0, <<19132, 25510, 30392>>) >>
                    \o encode_block_head
  /\ block_mi' = ModeInfo_zeroed
  /\ block_plane' = 0
  /\ pc' = "block_coeffs"
  /\ UNCHANGED <<mode_info, calls, visited>>
  /\ BlockKeep

\* encode_coeffs for the next plane
BlockCoeffs ==
  /\ pc = "block_coeffs" /\ block_plane < 3
  /\ \E res \in {encode_coeffs(mode_info, encoder.qindex, block_plane,
                               Head(calls)[1], Head(calls)[2], Head(calls)[3],
                               block_mi,
                               encode_block_coeffs(block_plane, Head(calls)[1],
                                                   Head(calls)[2]))} :
       /\ bitstream' = bitstream \o res.out
       /\ block_mi' = res.this_mi
       /\ IF res.status = "ok"
            THEN block_plane' = block_plane + 1 /\ pc' = pc
            ELSE block_plane' = block_plane /\ pc' = "panic"
  /\ UNCHANGED <<mode_info, calls, visited>>
  /\ BlockKeep

\* the final fill_region, and the return to the pending calls
BlockFill ==
  /\ pc = "block_coeffs" /\ block_plane = 3
  /\ IF Array2D_fill_region_panics(mode_info, Head(calls)[1], Head(calls)[2],
                                   Head(calls)[3] \div 4, Head(calls)[3] \div 4)
       THEN pc' = "panic" /\ UNCHANGED <<mode_info, calls, visited>>
       ELSE /\ mode_info' = Array2D_fill_region(
                              mode_info, Head(calls)[1], Head(calls)[2],
                              Head(calls)[3] \div 4, Head(calls)[3] \div 4,
                              block_mi)
            /\ visited' = Append(visited, <<Head(calls)[1], Head(calls)[2]>>)
            /\ calls' = Tail(calls)
            /\ pc' = "tile_encode"
  /\ UNCHANGED <<bitstream, block_mi, block_plane>>
  /\ BlockKeep

NextBlock ==
  \/ TileNew
  \/ EncodeImage
  \/ EncodePartitionSplit
  \/ BlockBegin
  \/ BlockCoeffs
  \/ BlockFill
  \/ EncodeDone

SpecBlock == InitTile /\ [][NextBlock]_vars

\* cdf.rs: the single CDFs of the block mode symbols
block_mode_cdfs ==
  [skip |-> <<31671>>,
   y_mode |-> <<15588, 17027, 19338, 20218, 20682, 21110, 21825, 23244,
                24189, 28165, 29093, 30466>>,
   uv_mode |-> <<10407, 11208, 12900, 13181, 13823, 14175, 14899, 15656,
                 15986, 20086, 20995, 22455, 24212>>]

\* the MI cells of the block in hand, as 1-based <<row, column>>
BlockCells ==
  {<<Head(calls)[1] + i, Head(calls)[2] + j>> : i \in 1..2, j \in 1..2}

\* the writer calls made for the block in hand so far: everything after
\* its PARTITION_NONE
BlockLog(log) ==
  LET starts == {k \in 1..Len(log) :
                   log[k] = <<"symbol", 0, <<19132, 25510, 30392>>>>}
  IN SubSeq(log, SetMax(starts) + 1, Len(log))

\* C21: encode_block emits skip = 0, intra_frame_y_mode = DC_PRED (0) and
\* uv_mode = DC_PRED (0), each under its one CDF, before any coefficient
\* symbol; then codes plane 0, 1 and 2 in this order; and only then writes
\* this_mi into the block's 2x2 MI cells.  Until then the grid is
\* unchanged: the cells of the block still hold what they held before.
C21_BlockOrder ==
  [][/\ (pc = "tile_encode" /\ pc' = "block_coeffs") =>
          /\ SubSeq(Emitted, 2, Len(Emitted))
               = << <<"symbol", 0, block_mode_cdfs.skip>>,
                    <<"symbol", 0, block_mode_cdfs.y_mode>>,
                    <<"symbol", 0, block_mode_cdfs.uv_mode>> >>
          /\ block_plane' = 0
          /\ mode_info' = mode_info
     /\ (pc = "block_coeffs" /\ pc' = "block_coeffs") =>
          /\ block_plane' = block_plane + 1
          /\ Len(BlockLog(bitstream)) >= 3
          /\ (block_plane = 0) = (Len(BlockLog(bitstream)) = 3)
          /\ Emitted # <<>>
          /\ Emitted[1] = <<"bool", Emitted[1][2],
                            IF block_plane = 0 THEN 31903 ELSE 2713>>
          /\ mode_info' = mode_info
          /\ \A cell \in BlockCells :
               mode_info.data[cell[1]][cell[2]] = ModeInfo_zeroed
     /\ (pc = "block_coeffs" /\ pc' = "tile_encode") =>
          /\ block_plane = 3
          /\ Emitted = <<>>
          /\ \A r \in 1..mode_info.rows, c \in 1..mode_info.cols :
               mode_info'.data[r][c]
                 = IF <<r, c>> \in BlockCells THEN block_mi
                   ELSE mode_info.data[r][c]
          /\ \A cell \in BlockCells :
               mode_info.data[cell[1]][cell[2]] = ModeInfo_zeroed
    ]_vars

\* the second block of the 16x16 image has coded its three planes and is
\* about to write its ModeInfo; its cells are still zeroed while this_mi
\* holds level_ctx 1 for luma
C21_Witness ==
  /\ pc = "block_coeffs" /\ block_plane = 3
  /\ Head(calls) = <<0, 2, 8>>
  /\ block_mi.level_ctx[1] = 1
  /\ mode_info.data[1][3] = ModeInfo_zeroed
  /\ Len(BlockLog(bitstream)) > 5

\* the 8x8 block that owns an MI cell
CellOwner(cell) == <<2 * (cell[1] \div 2), 2 * (cell[2] \div 2)>>

Finished == {visited[k] : k \in 1..Len(visited)}

\* C22: while the block at (r, c) is being encoded, every MI cell above it
\* (row r-1, columns c..c+1) and left of it (column c-1, rows r..r+1)
\* belongs to a block that has finished encode_block; the cells of
\* finished blocks never change again; and the cells a block writes at its
\* end have not been read as context by any block encoded so far.
C22_NeighboursFinished ==
  [][(pc = "block_coeffs") =>
       /\ \A cell \in dc_sign_ctx_cells(mode_info, Head(calls)[1],
                                        Head(calls)[2], Head(calls)[3]) :
            /\ cell[1] >= 0 /\ cell[1] < mode_info.rows
            /\ cell[2] >= 0 /\ cell[2] < mode_info.cols
            /\ CellOwner(cell) \in Finished
            /\ mode_info'.data[cell[1] + 1][cell[2] + 1]
                 = mode_info.data[cell[1] + 1][cell[2] + 1]
       /\ <<Head(calls)[1], Head(calls)[2]>> \notin Finished
       /\ \A r \in 1..mode_info.rows, c \in 1..mode_info.cols :
            CellOwner(<<r - 1, c - 1>>) \in Finished
              => mode_info'.data[r][c] = mode_info.data[r][c]
       /\ \A r \in 1..mode_info.rows, c \in 1..mode_info.cols :
            mode_info'.data[r][c] # mode_info.data[r][c] =>
              \A b \in Finished \cup {<<Head(calls)[1], Head(calls)[2]>>} :
                <<r - 1, c - 1>>
                  \notin dc_sign_ctx_cells(mode_info, b[1], b[2], 8)
    ]_vars

\* the block at MI (2, 2) of the 16x16 image is being encoded: the blocks
\* above it and left of it have finished and left their level_ctx
C22_Witness ==
  /\ pc = "block_coeffs" /\ block_plane = 1
  /\ Head(calls) = <<2, 2, 8>>
  /\ dc_sign_ctx_cells(mode_info, 2, 2, 8)
       = {<<1, 2>>, <<1, 3>>, <<2, 1>>, <<3, 1>>}
  /\ {<<0, 2>>, <<2, 0>>} \subseteq Finished
  /\ mode_info.data[2][3].level_ctx[1] = 1
  /\ mode_info.data[3][2].level_ctx[1] = 1

---------------------------------------------------------------------------
(* av1_encoder.rs: encode_coeffs on its own, for coefficient arrays,
   neighbour ModeInfo and block positions that encode_block does not
   produce yet.  tx_block is coeffs, block_plane the plane, Head(calls)
   the block, mode_info the grid of a 16x16 image, block_mi this_mi;
   bitstream receives the calls made and lookups what was indexed. *)

\* the scan position of the coefficient at (row, col) of an 8x8 block
ScanIndex(scan, row, col) ==
  CHOOSE c \in 0..(Len(scan) - 1) : scan[c + 1] = <<row, col>>

\* An array whose last nonzero coefficient, last, is at scan position
\* eob - 1, with dc at position 0 and fill at the odd positions between
ScanBlock(txsize, scan, eob, last, fill, dc) ==
  [rows |-> txsize, cols |-> txsize,
   data |-> [i \in 1..txsize |-> [j \in 1..txsize |->
     LET c == ScanIndex(scan, i - 1, j - 1)
     IN IF c = eob - 1 THEN last
        ELSE IF c >= eob THEN 0
        ELSE IF c = 0 THEN dc
        ELSE IF c % 2 = 1 THEN fill
        ELSE 0]]]

MaxEob == Len(default_scan_8x8)
EobSamples == {1, 2, 4, 11, MaxEob}
LastSamples == {-1, 2, 3, 4, -6, 14, 15, -17, 300}
FillSamples == {0, -1, 5, -20}
DcSamples == {0, 1, -2, 15, -33}

LumaBlocks ==
  {ScanBlock(8, default_scan_8x8, eob, last, 0, 0) :
     eob \in 1..MaxEob, last \in {1, -3}}
    \cup
  {ScanBlock(8, default_scan_8x8, eob, last, fill, dc) :
     eob \in EobSamples, last \in LastSamples, fill \in FillSamples,
     dc \in DcSamples}
    \cup {Array2D_zeroed(8, 8)}

\* the blocks coded against every neighbourhood
DcBlocks ==
  {ScanBlock(8, default_scan_8x8, eob, last, 0, dc) :
     eob \in {1, 3}, last \in {3, -20}, dc \in {2, -2}}

ChromaBlocks ==
  {Array2D_zeroed(4, 4),
   ScanBlock(4, default_scan_4x4, 1, 3, 0, 0),
   ScanBlock(4, default_scan_4x4, 2, -1, 0, -2)}

\* what a finished block whose DC had this sign left in its MI cells
NeighbourInfo(sign) ==
  [level_ctx |-> <<5 * abs(sign), 5 * abs(sign), 5 * abs(sign)>>,
   dc_sign |-> <<sign, sign, sign>>]

\* the grid of a 16x16 image when the block at pos is reached: the block
\* above left its DC sign, and so did the block to the left
NeighbourGrid(pos, above_sign, left_sign) ==
  [rows |-> 4, cols |-> 4,
   data |-> [r \in 1..4 |-> [c \in 1..4 |->
     IF CellOwner(<<r - 1, c - 1>>) = <<pos[1] - 2, pos[2]>>
       THEN NeighbourInfo(above_sign)
     ELSE IF CellOwner(<<r - 1, c - 1>>) = <<pos[1], pos[2] - 2>>
       THEN NeighbourInfo(left_sign)
     ELSE ModeInfo_zeroed]]]

BlockPositions == {<<0, 0>>, <<0, 2>>, <<2, 0>>, <<2, 2>>}

InitCoeffs ==
  /\ pc = "coeffs"
  /\ \E plane \in 0..2, pos \in BlockPositions,
        above_sign \in {-1, 0, 1}, left_sign \in {-1, 0, 1} :
       /\ block_plane = plane
       /\ calls = << <<pos[1], pos[2], 8>> >>
       /\ mode_info = NeighbourGrid(pos, above_sign, left_sign)
       /\ tx_block \in
            IF plane # 0 THEN ChromaBlocks
            ELSE IF pos = <<0, 0>> THEN LumaBlocks
            ELSE DcBlocks
  /\ encoder = AV1Encoder_new(16, 16, 255) /\ add_trailing_one_bit = FALSE
  /\ block_mi = ModeInfo_zeroed
  /\ bitstream = EntropyWriter_new /\ lookups = <<>>
  /\ frame = <<>> /\ visited = <<>> /\ q_steps = <<>>
  /\ prob_cdf = <<>> /\ probs = <<>>
  /\ pred_plane = <<>> /\ pred_args = <<>> /\ btf_args = <<>> /\ btf_out = 0
  /\ LebIdle /\ ObuIdle /\ AvifIdle /\ FrameIdle

EncodeCoeffs ==
  /\ pc = "coeffs"
  /\ \E res \in {encode_coeffs(mode_info, encoder.qindex, block_plane,
                               Head(calls)[1], Head(calls)[2], Head(calls)[3],
                               block_mi, tx_block)} :
       /\ bitstream' = bitstream \o res.out
       /\ block_mi' = res.this_mi
       /\ lookups' = res.lookups
       /\ pc' = IF res.status = "ok" THEN "coeffs_done" ELSE "panic"
  /\ UNCHANGED <<lebVars, obuVars, avifVars, frameVars, encVars, mode_info,
                 frame, calls, visited, tx_block, q_steps, prob_cdf, probs,
                 block_plane, pred_plane, pred_args, btf_args, btf_out>>

NextCoeffs == EncodeCoeffs

SpecCoeffs == InitCoeffs /\ [][NextCoeffs]_vars

\* the coefficient of tx_block at scan position c
ScanOf(block) == IF block.rows = 4 THEN default_scan_4x4 ELSE default_scan_8x8
CoeffAt(block, c) ==
  block.data[ScanOf(block)[c + 1][1] + 1][ScanOf(block)[c + 1][2] + 1]

\* one past the last nonzero coefficient in scan order, 0 if there is none
EobOf(block) ==
  LET nz == {c \in 0..(block.rows * block.cols - 1) : CoeffAt(block, c) # 0}
  IN IF nz = {} THEN 0 ELSE SetMax(nz) + 1

\* the least k with eob <= 2^k
EobClassOf(eob) == CHOOSE k \in 0..6 : eob <= Pow2(k) /\ (k = 0 \/ eob > Pow2(k - 1))

\* A pattern for one writer call: its kind, its value (-1: any; with a
\* cap, the value after capping), its CDF length, bit count or
\* probability (-1: any)
Pattern(kind, value, cap, width) ==
  [kind |-> kind, value |-> value, cap |-> cap, width |-> width]

Matches(call, pat) ==
  LET v == IF call[1] = "bool" THEN (IF call[2] THEN 1 ELSE 0) ELSE call[2]
      w == IF call[1] = "symbol" THEN Len(call[3])
               ELSE IF call[1] = "golomb" THEN -1
               ELSE call[3]
  IN /\ call[1] = pat.kind
     /\ \/ pat.value = -1
        \/ pat.cap = 0 /\ v = pat.value
        \/ pat.cap > 0 /\ Min(v, pat.cap) = pat.value
     /\ pat.width = -1 \/ w = pat.width

\* how many coeff_br symbols follow the base symbol of a magnitude
BrCountOf(magnitude) ==
  IF magnitude <= 2 THEN 0
  ELSE IF magnitude >= 12 THEN 4
  ELSE (magnitude - 3) \div 3 + 1

\* the sign bit and the Golomb suffix of a coefficient
SignSyntax(coeff, kind, width) ==
  (IF coeff # 0
     THEN << Pattern(kind, IF coeff < 0 THEN 1 ELSE 0, 0, width) >>
     ELSE <<>>)
    \o (IF abs(coeff) >= 15
          THEN << Pattern("golomb", abs(coeff) - 15, 0, -1) >> ELSE <<>>)

\* the syntax of a plane in the normative order
PlaneSyntax(block, plane) ==
  LET eob == EobOf(block)
      class == EobClassOf(eob)
      luma == plane = 0
      base(c) ==
        << IF c = eob - 1
             THEN Pattern("symbol", Min(abs(CoeffAt(block, c)) - 1, 2), 2, 2)
             ELSE Pattern("symbol", Min(abs(CoeffAt(block, c)), 3), 3, 3) >>
          \o [k \in 1..BrCountOf(abs(CoeffAt(block, c))) |->
                Pattern("symbol", -1, 0, 3)]
  IN << Pattern("bool", IF eob = 0 THEN 1 ELSE 0, 0,
                IF luma THEN 31903 ELSE 2713) >>
       \o (IF eob = 0 THEN <<>>
           ELSE (IF luma THEN << Pattern("symbol", 1, 0, 4) >> ELSE <<>>)
             \o << Pattern("symbol", class, 0, IF luma THEN 6 ELSE -1) >>
             \o (IF class > 1
                   THEN << Pattern("symbol", -1, 0, 1),
                           Pattern("literal", -1, 0, class - 2) >>
                   ELSE <<>>)
             \o Concat([i \in 1..eob |-> base(eob - i)], eob)
             \o SignSyntax(CoeffAt(block, 0), "symbol", 1)
             \o Concat([c \in 1..(eob - 1) |->
                          SignSyntax(CoeffAt(block, c), "literal", 1)],
                       eob - 1))

\* C23: the calls encode_coeffs makes for a plane follow the normative
\* order: all_zero; for a plane that is not all zero the transform type
\* (luma only), the EOB class and its extra bits, the base and base-range
\* symbols from scan position eob-1 down to 0, the DC sign and the DC
\* Golomb suffix, then for positions 1..eob-1 upwards a raw sign bit (1 if
\* negative) for each nonzero coefficient and golomb(|coeff|-15) exactly
\* when |coeff| >= 15; nothing after all_zero = 1.  What has been emitted
\* is always an initial part of this syntax, and all of it on return.
C23_SyntaxOrder ==
  LET syntax == PlaneSyntax(tx_block, block_plane)
  IN pc \in {"coeffs_done", "panic"} =>
       /\ Len(bitstream) <= Len(syntax)
       /\ \A i \in 1..Len(bitstream) : Matches(bitstream[i], syntax[i])
       /\ pc = "coeffs_done" => Len(bitstream) = Len(syntax)

\* eleven coefficients, the last one -17, fill 5 and DC -33: both passes
\* have run, with Golomb suffixes for the DC and for the last coefficient
C23_Witness ==
  /\ pc = "coeffs_done" /\ block_plane = 0
  /\ EobOf(tx_block) = 11
  /\ CoeffAt(tx_block, 10) = -17 /\ CoeffAt(tx_block, 0) = -33
  /\ CoeffAt(tx_block, 1) = 5
  /\ bitstream[Len(bitstream)] = write_golomb(2)
  /\ write_golomb(18) \in {bitstream[i] : i \in 1..Len(bitstream)}

\* a luma plane with coefficients has been coded
LumaCoded ==
  pc = "coeffs_done" /\ block_plane = 0 /\ EobOf(tx_block) > 0

\* C24: for every eob in 1..64 the EOB class written is ceil(log2(eob)),
\* at most 6.  Above class 1 the assertion holds, 2^(class-1)+1 <= eob <=
\* 2^class, and the extra bit and the remainder written satisfy
\* eob - (2^(class-1)+1) = extra_bit * 2^(class-2) + remainder with
\* extra_bit in {0, 1} and 0 <= remainder < 2^(class-2), which fixes eob;
\* for class 0 and 1 no extra bits are written.
C24_EobClass ==
  /\ ~(pc = "panic" /\ block_plane = 0)
  /\ LumaCoded =>
       LET eob == EobOf(tx_block)
           class == bitstream[3][2]
           extra == bitstream[4]
           rest == bitstream[5]
       IN /\ bitstream[3][1] = "symbol"
          /\ class \in 0..6
          /\ eob <= Pow2(class) /\ (class > 0 => eob > Pow2(class - 1))
          /\ class > 1 =>
               /\ Pow2(class - 1) + 1 <= eob /\ eob <= Pow2(class)
               /\ extra[1] = "symbol" /\ Len(extra[3]) = 1
               /\ extra[2] \in {0, 1}
               /\ rest[1] = "literal" /\ rest[3] = class - 2
               /\ 0 <= rest[2] /\ rest[2] < Pow2(class - 2)
               /\ eob - (Pow2(class - 1) + 1)
                    = extra[2] * Pow2(class - 2) + rest[2]
          /\ class <= 1 =>
               /\ eob = class + 1
               /\ bitstream[4] = write_symbol(abs(CoeffAt(tx_block, eob - 1)) - 1,
                                              bitstream[4][3])
               /\ Len(bitstream[4][3]) = 2

\* eob = 49: class 6, extra bit 1 and remainder 0
C24_Witness ==
  /\ LumaCoded /\ EobOf(tx_block) = 49
  /\ bitstream[3][2] = 6 /\ bitstream[4][2] = 1
  /\ bitstream[5] = write_literal(0, 4)

\* where the base symbol of the coefficient at scan position c stands in
\* the calls of a coded luma plane
BaseSymbolAt(block, c) ==
  LET eob == EobOf(block)
      after[k \in c..(eob - 1)] ==
        IF k = eob - 1 THEN 0
        ELSE after[k + 1] + 1 + BrCountOf(abs(CoeffAt(block, k + 1)))
  IN 3 + (IF EobClassOf(eob) > 1 THEN 2 ELSE 0) + after[c] + 1

\* C25: the base symbol of the last nonzero coefficient (c = eob-1) is
\* min(|coeff|-1, 2) under a 3-ary coeff_base_eob CDF, that of every other
\* coefficient min(|coeff|, 3) under a 4-ary coeff_base CDF; so whatever
\* the magnitude, the symbol lies inside the alphabet of its CDF.
C25_BaseSymbolInAlphabet ==
  LumaCoded =>
    \A c \in 0..(EobOf(tx_block) - 1) :
      LET call == bitstream[BaseSymbolAt(tx_block, c)]
          magnitude == abs(CoeffAt(tx_block, c))
      IN /\ call[1] = "symbol"
         /\ Len(call[3]) = IF c = EobOf(tx_block) - 1 THEN 2 ELSE 3
         /\ call[2] = IF c = EobOf(tx_block) - 1
                        THEN Min(magnitude - 1, 2)
                        ELSE Min(magnitude, 3)
         /\ call[2] <= Len(call[3])

\* the coeff_br calls that follow the base symbol of the coefficient at
\* scan position c: up to the base symbol of the next coefficient coded,
\* or up to the DC sign
BrCalls(block, log, c) ==
  LET first == BaseSymbolAt(block, c) + 1
      tail == Len(SignSyntax(CoeffAt(block, 0), "symbol", 1))
                + Len(Concat([k \in 1..(EobOf(block) - 1) |->
                                SignSyntax(CoeffAt(block, k), "literal", 1)],
                             EobOf(block) - 1))
      last == IF c = 0 THEN Len(log) - tail
              ELSE BaseSymbolAt(block, c - 1) - 1
  IN SubSeq(log, first, last)

\* level before the k-th coeff_br symbol: 3 plus the symbols before it
BrLevel(br, k) ==
  LET sum[i \in 0..(k - 1)] == IF i = 0 THEN 3 ELSE sum[i - 1] + br[i][2]
  IN sum[k - 1]

\* C26: a coefficient with |coeff| > 2 is followed by one to four coeff_br
\* symbols, all under the same CDF; the k-th is min(|coeff| - level, 3),
\* level starting at 3 and growing by each symbol; the symbols end right
\* after the first one below 3, or after the fourth; 3 plus their sum is
\* min(|coeff|, 15).  A coefficient with |coeff| <= 2 has none.
C26_BaseRange ==
  LumaCoded =>
    /\ Len(bitstream) = Len(PlaneSyntax(tx_block, block_plane))
    /\ \A c \in 0..(EobOf(tx_block) - 1) :
         LET br == BrCalls(tx_block, bitstream, c)
             magnitude == abs(CoeffAt(tx_block, c))
         IN /\ magnitude <= 2 => br = <<>>
            /\ magnitude > 2 =>
                 /\ Len(br) \in 1..4
                 /\ \A k \in 1..Len(br) :
                      /\ br[k][1] = "symbol"
                      /\ br[k][3] = br[1][3] /\ Len(br[k][3]) = 3
                      /\ br[k][2] = Min(magnitude - BrLevel(br, k), 3)
                      /\ k < Len(br) => br[k][2] = 3
                 /\ br[Len(br)][2] < 3 \/ Len(br) = 4
                 /\ BrLevel(br, Len(br) + 1) = Min(magnitude, 15)

\* |coeff| = 6 as the last of four: two coeff_br symbols, 3 and 0; and the
\* fill 5 before it: one symbol, 2
C26_Witness ==
  /\ LumaCoded /\ EobOf(tx_block) = 4
  /\ CoeffAt(tx_block, 3) = -6 /\ CoeffAt(tx_block, 1) = 5
  /\ Len(BrCalls(tx_block, bitstream, 3)) = 2
  /\ BrCalls(tx_block, bitstream, 3)[2][2] = 0
  /\ Len(BrCalls(tx_block, bitstream, 1)) = 1
  /\ BrCalls(tx_block, bitstream, 1)[1][2] = 2

\* the sum of dc_sign[plane] over the MI cells above the block (when it
\* is not in the first row) and left of it (when not in the first column)
NeighbourSignSum(grid, plane, mi_row, mi_col) ==
  LET sign(r, c) == grid.data[r + 1][c + 1].dc_sign[plane + 1]
  IN (IF mi_row > 0
        THEN sign(mi_row - 1, mi_col) + sign(mi_row - 1, mi_col + 1) ELSE 0)
       + (IF mi_col > 0
            THEN sign(mi_row, mi_col - 1) + sign(mi_row + 1, mi_col - 1)
            ELSE 0)

\* the DC sign CDF of a context: 0 balanced, 1 negative, 2 positive
DcSignCdfOf(sum) ==
  IF sum = 0 THEN <<16000>> ELSE IF sum < 0 THEN <<13056>> ELSE <<18816>>

DcSignCalls(log) ==
  {i \in 1..Len(log) :
     log[i][1] = "symbol" /\ log[i][3] \in {<<16000>>, <<13056>>, <<18816>>}}

CoeffsCalled == pc \in {"coeffs_done", "panic"}

\* C27: for each plane 0, 1, 2 with a nonzero DC coefficient the sign bit
\* (1 if negative) is emitted under the context given by the sum of
\* dc_sign[plane] over the above and left neighbour MI cells (0 if zero,
\* 1 if negative, 2 if positive); with a zero DC no DC sign is emitted;
\* and signum(dc_coeff) is stored into this_mi.dc_sign[plane].
C27_DcSign ==
  CoeffsCalled =>
    LET dc == tx_block.data[1][1]
        sum == NeighbourSignSum(mode_info, block_plane, Head(calls)[1],
                                Head(calls)[2])
    IN /\ block_mi.dc_sign[block_plane + 1] = signum(dc)
       /\ dc = 0 => DcSignCalls(bitstream) = {}
       /\ dc # 0 =>
            /\ pc = "coeffs_done"
            /\ DcSignCalls(bitstream) # {}
            /\ \A i \in DcSignCalls(bitstream) :
                 bitstream[i] = write_symbol(IF dc < 0 THEN 1 ELSE 0,
                                             DcSignCdfOf(sum))

\* the largest index of each table, and of the EOB class
LastIndex ==
  [eob_class |-> 6, first_extra_bit_cdf |-> 4, coeff_base_eob_cdf |-> 3,
   coeff_base_cdf |-> 41, coeff_br_cdf |-> 20, dc_sign_cdf |-> 2]

IndicesOf(table) ==
  {lookups.rows[i][2] :
     i \in {k \in 1..Len(lookups.rows) : lookups.rows[k][1] = table}}

\* C28: for an 8x8 luma array at a block position inside the MI grid,
\* every index encode_coeffs and dc_sign_ctx compute is in range:
\* eob_class in 0..6 and eob_class-2 in 0..4 where used, base_eob_ctx in
\* 0..3, base_ctx in 0..41, br_ctx in 0..20, dc_sign_ctx in 0..2; every
\* neighbour coefficient read lies inside the transform block and every
\* MI cell read inside the MI grid.
C28_IndicesInRange ==
  (CoeffsCalled /\ block_plane = 0) =>
    /\ pc = "coeffs_done"
    /\ \A i \in 1..Len(lookups.rows) :
         LET row == lookups.rows[i]
         IN /\ row[1] \in DOMAIN LastIndex
            /\ row[2] >= 0 /\ row[2] <= LastIndex[row[1]]
            /\ row[3] = LastIndex[row[1]] + 1
    /\ EobOf(tx_block) > 0 => Len(lookups.rows) > EobOf(tx_block)
    /\ \A ref \in lookups.refs :
         /\ ref[1] \in 0..(tx_block.rows - 1)
         /\ ref[2] \in 0..(tx_block.cols - 1)
    /\ \A cell \in lookups.cells :
         /\ cell[1] \in 0..(mode_info.rows - 1)
         /\ cell[2] \in 0..(mode_info.cols - 1)

\* all 64 coefficients coded, the large ones next to each other: the
\* highest contexts in use and neighbours read up to the corner (7, 7)
C28_Witness ==
  /\ pc = "coeffs_done" /\ block_plane = 0
  /\ EobOf(tx_block) = MaxEob
  /\ 25 \in IndicesOf("coeff_base_cdf")
  /\ 20 \in IndicesOf("coeff_br_cdf")
  /\ 3 \in IndicesOf("coeff_base_eob_cdf")
  /\ 4 \in IndicesOf("first_extra_bit_cdf")
  /\ <<7, 7>> \in lookups.refs

---------------------------------------------------------------------------
(* recon.rs: dc_predict on a plane of pixels.  pred_plane is pixels,
   pred_args is <<y0, x0, h, w>>. *)

MaxPlaneSize == 4
MaxPredSize == 3

PlanePatterns == {"black", "white", "bright", "checker", "ramp", "mixed"}

PlanePixel(pattern, r, c) ==
  IF pattern = "black" THEN 0
  ELSE IF pattern = "white" THEN 255
  ELSE IF pattern = "bright" THEN 254 + ((r + c) % 2)
  ELSE IF pattern = "checker" THEN 255 * ((r + c) % 2)
  ELSE IF pattern = "ramp" THEN (67 * r + 41 * c) % 256
  ELSE (r * r * 97 + c * 201 + 3) % 256

\* the blocks that lie inside the plane
PredArgs ==
  {a \in (0..(MaxPlaneSize - 1)) \X (0..(MaxPlaneSize - 1))
           \X (1..MaxPredSize) \X (1..MaxPredSize) :
     a[1] + a[3] <= MaxPlaneSize /\ a[2] + a[4] <= MaxPlaneSize}

InitPredict ==
  /\ pc = "predict"
  /\ \E pattern \in PlanePatterns :
       pred_plane = [rows |-> MaxPlaneSize, cols |-> MaxPlaneSize,
                     data |-> [r \in 1..MaxPlaneSize |->
                                 [c \in 1..MaxPlaneSize |->
                                    PlanePixel(pattern, r, c)]]]
  /\ pred_args \in PredArgs
  /\ mode_info = Array2D_zeroed(0, 0) /\ frame = <<>>
  /\ bitstream = <<>> /\ calls = <<>> /\ visited = <<>>
  /\ tx_block = Array2D_zeroed(0, 0) /\ q_steps = <<>>
  /\ prob_cdf = <<>> /\ probs = <<>>
  /\ block_mi = <<>> /\ block_plane = 0
  /\ btf_args = <<>> /\ btf_out = 0 /\ lookups = <<>>
  /\ LebIdle /\ ObuIdle /\ EncIdle /\ AvifIdle /\ FrameIdle

DcPredict ==
  /\ pc = "predict"
  /\ pred_plane' =
       Array2D_fill_region(
         pred_plane, pred_args[1], pred_args[2], pred_args[3], pred_args[4],
         dc_predict(pred_plane, pred_args[1], pred_args[2], pred_args[3],
                    pred_args[4]))
  /\ pc' = "predict_done"
  /\ UNCHANGED <<lebVars, obuVars, encVars, avifVars, frameVars, mode_info,
                 frame, bitstream, calls, visited, tx_block, q_steps,
                 prob_cdf, probs, block_mi, block_plane, pred_args, btf_args,
                 btf_out, lookups>>

NextPredict == DcPredict

SpecPredict == InitPredict /\ [][NextPredict]_vars

\* the neighbour pixels dc_predict uses: row y0-1 over the block's columns
\* and column x0-1 over the block's rows, as a sequence
NeighbourPixels(pixels, y0, x0, h, w) ==
  (IF y0 > 0 THEN [j \in 1..w |-> pixels.data[y0][x0 + j]] ELSE <<>>)
    \o (IF x0 > 0 THEN [i \in 1..h |-> pixels.data[y0 + i][x0]] ELSE <<>>)

\* C29: dc_predict(recon, y0, x0, h, w) fills exactly the h x w block at
\* (y0, x0) with one value and changes no pixel outside it: 128 for
\* y0 = 0 and x0 = 0, otherwise (sum + divisor/2) / divisor over the w
\* pixels of row y0-1 (if y0 > 0) and the h pixels of column x0-1 (if
\* x0 > 0); the value is in 0..255 and between the least and the largest
\* neighbour pixel used.
C29_DcPredict ==
  [][pc = "predict" =>
       LET y0 == pred_args[1]
           x0 == pred_args[2]
           h == pred_args[3]
           w == pred_args[4]
           used == NeighbourPixels(pred_plane, y0, x0, h, w)
           divisor == Len(used)
           value == IF y0 = 0 /\ x0 = 0 THEN 128
                    ELSE (SeqSum(used) + divisor \div 2) \div divisor
       IN /\ divisor = (IF y0 > 0 THEN w ELSE 0) + (IF x0 > 0 THEN h ELSE 0)
          /\ value \in 0..255
          /\ used # <<>> =>
               \E lo \in 1..Len(used), hi \in 1..Len(used) :
                 used[lo] <= value /\ value <= used[hi]
          /\ pred_plane'.rows = pred_plane.rows
          /\ pred_plane'.cols = pred_plane.cols
          /\ \A r \in 1..pred_plane.rows, c \in 1..pred_plane.cols :
               pred_plane'.data[r][c]
                 = IF /\ r - 1 >= y0 /\ r - 1 < y0 + h
                      /\ c - 1 >= x0 /\ c - 1 < x0 + w
                     THEN value
                     ELSE pred_plane.data[r][c]
    ]_vars

\* a 2 x 1 block at (1, 2) of the ramp: filled with the rounded average
\* of the pixel above and the two pixels to the left
C29_Witness ==
  /\ pc = "predict_done" /\ pred_args = <<1, 2, 2, 1>>
  /\ pred_plane.data[1][3] = PlanePixel("ramp", 1, 3)
  /\ pred_plane.data[2][2] = PlanePixel("ramp", 2, 2)
  /\ pred_plane.data[3][2] = PlanePixel("ramp", 3, 2)
  /\ pred_plane.data[2][3] = 144 /\ pred_plane.data[3][3] = 144


-----------------------------------------------------------------------------
(* half_btf on its own: one call on arbitrary 32-bit arguments              *)

\* the weights and inputs tried: zero, small values, a cosine weight, the
\* values around the square root of 2^31 and of 2^32, and both ends of i32
BtfSamples == {I32_MIN, -65536, -46341, -1, 0, 3, 2896, 46341, 65536, I32_MAX}

\* cospi_arr accepts exactly these
CosBits == 10..13

InitBtf ==
  /\ pc = "btf"
  /\ btf_args \in
       {<<w0, in0, w1, in1, cos_bit>> :
          w0 \in BtfSamples, in0 \in BtfSamples, w1 \in BtfSamples,
          in1 \in BtfSamples, cos_bit \in CosBits}
  /\ btf_out = 0
  /\ pred_plane = Array2D_zeroed(0, 0) /\ pred_args = <<>>
  /\ mode_info = Array2D_zeroed(0, 0) /\ frame = <<>>
  /\ bitstream = <<>> /\ calls = <<>> /\ visited = <<>>
  /\ tx_block = Array2D_zeroed(0, 0) /\ q_steps = <<>>
  /\ prob_cdf = <<>> /\ probs = <<>>
  /\ block_mi = <<>> /\ block_plane = 0 /\ lookups = <<>>
  /\ LebIdle /\ ObuIdle /\ EncIdle /\ AvifIdle /\ FrameIdle

BtfKeep ==
  UNCHANGED <<lebVars, obuVars, encVars, avifVars, frameVars, mode_info,
              frame, bitstream, calls, visited, tx_block, q_steps,
              prob_cdf, probs, block_mi, block_plane, pred_plane, pred_args,
              btf_args, lookups>>

\* half_btf returns. Where a product overflows this is the build without
\* overflow checks
HalfBtf ==
  /\ pc = "btf"
  /\ btf_out' = half_btf(btf_args[1], btf_args[2], btf_args[3], btf_args[4],
                         btf_args[5])
  /\ pc' = "btf_done"
  /\ BtfKeep

\* half_btf panics with "attempt to multiply with overflow": the build
\* with overflow checks, on arguments one of whose products overflows
HalfBtfOverflow ==
  /\ pc = "btf"
  /\ half_btf_panics(btf_args[1], btf_args[2], btf_args[3], btf_args[4])
  /\ pc' = "panic"
  /\ UNCHANGED btf_out
  /\ BtfKeep

NextBtf == HalfBtf \/ HalfBtfOverflow

SpecBtf == InitBtf /\ [][NextBtf]_vars

\* a + b modulo 2^32 as an i32, by adding 16-bit halves
Wrap32Sum(a, b) ==
  LET low == (a % 65536) + (b % 65536)
      high == (a \div 65536) + (b \div 65536) + (low \div 65536)
  IN (((high + 32768) % 65536) - 32768) * 65536 + (low % 65536)

\* a * 2^k modulo 2^32 as an i32
Wrap32Shl(a, k) ==
  IF k = 0 THEN a
  ELSE IF k = 31 THEN (IF a % 2 = 1 THEN I32_MIN ELSE 0)
  ELSE (a % Pow2(31 - k)) * Pow2(k)
         + (IF (a \div Pow2(31 - k)) % 2 = 1 THEN I32_MIN ELSE 0)

\* bit k of the two's-complement form of b
Wrap32Bit(b, k) == IF k = 31 THEN b < 0 ELSE (b \div Pow2(k)) % 2 = 1

RECURSIVE Wrap32Product(_, _, _)
\* a * b modulo 2^32 as an i32: the sum of a * 2^j over the set bits j >= k
\* of b
Wrap32Product(a, b, k) ==
  IF k = 32 THEN 0
  ELSE Bind(Wrap32Product(a, b, k + 1),
            LAMBDA rest : IF Wrap32Bit(b, k)
                            THEN Wrap32Sum(Wrap32Shl(a, k), rest)
                            ELSE rest)

\* C30: half_btf never traps, and returns the arithmetic right shift by
\* cos_bit of w0*in0 + w1*in1 + 2^(cos_bit-1), every multiplication and
\* addition taken modulo 2^32 in two's complement
C30_HalfBtfWraps ==
  /\ pc # "panic"
  /\ pc = "btf_done" =>
       btf_out =
         Wrap32Sum(Wrap32Sum(Wrap32Product(btf_args[1], btf_args[2], 0),
                             Wrap32Product(btf_args[3], btf_args[4], 0)),
                   Pow2(btf_args[5] - 1))
           \div Pow2(btf_args[5])

=============================================================================
